---- MODULE Spec2Model ----
(***************************************************************************)
(* A model of the room / game-session core of the party-room backend:     *)
(* src/src/services/roomService.js (room service, followed in the same    *)
(* file by the game service) and the realtime gateway and schema of       *)
(* src/src/config/socket.js.                                              *)
(*                                                                         *)
(* Every `await db.query(...)` of the services is one atomic step of the  *)
(* request that issues it (autocommit, one statement at a time); the      *)
(* synchronous code that follows the await up to the next query belongs   *)
(* to the same step.  A request in flight is a process p with a program   *)
(* counter pc[p] and its local variables loc[p].  res is the answer the    *)
(* step just taken gave to its caller (with the statement that gave it)   *)
(* and emitted the events it sent (both empty after a step that answered  *)
(* or sent nothing).  Requests are *)
(* interchangeable, so a new one takes the first free process.            *)
(* Timestamps (joined_at, left_at, started_at, ended_at) are kept only as *)
(* "NULL or not".                                                          *)
(***************************************************************************)
EXTENDS Integers, Sequences, FiniteSets, TLC

\* ------------------------------------------------------------------ bounds

\* Requests that may be started in one behaviour of each specification.
MaxCalls == 5
MaxSerialCalls == 6
MaxGameCalls == 3
MaxHostCalls == 4
MaxRequestCalls == 4
MaxGateCalls == 4
MaxRegistryCalls == 3
MaxNotifyCalls == 4
MaxBroadcastCalls == 2
MaxPlayCalls == 4
MaxPatchCalls == 2

Procs == {1, 2}
Users == {"u1", "u2"}
GameUsers == {"u1", "u2", "u3"}
Socks == {"s1", "s2"}
\* The connections of users with several devices.
Devices == {"d1", "d2", "d3"}
\* The user whose token each connection presents.
SockUser == [s \in Socks |-> IF s = "s1" THEN "u1" ELSE "u2"]
RoomIds == {1, 2}
ReqIds == {1, 2}
SessIds == {1, 2}
\* Room names (3 to 50 characters), kept as sequences of characters.
Names == {<<"a", "b", "c">>, <<"a", "b", "c", "d">>}
\* What a client may send as the room type (none = the field is absent).
\* The names a patch may carry (<<>> = the field is absent).
\* Names are over letters, "_" and "%"; the route takes any string of 3 to 50
\* characters.
PatchNames == {<<>>, <<"a", "b", "c">>, <<"a", "b", "c", "d">>,
               <<"p", "q", "r">>, <<"a", "_", "c">>, <<"b", "%", "d">>}
TypeInputs == {"none", "private", "bogus"}
\* The games catalogue (rows of the games table): id and max_players.
Games == {[id |-> "g1", max_players |-> 2]}
GameIds == {g.id : g \in Games}
Deltas == {5, -2}
\* What a client may send as the score and the route's isNumeric lets
\* through: a JSON number, or a string of digits.
Scores == [type : {"number"}, value : Deltas]
            \cup {[type |-> "string", value |-> 5]}

VARIABLES
    rooms,      \* table rooms: [id, name, type, is_locked, host_id]
    parts,      \* table room_participants: [id, room_id, user_id, is_active]
    reqs,       \* table room_join_requests: [id, room_id, user_id, status]
    nextReq,    \* ids handed out to join requests so far (rows are deleted)
    sessions,   \* table game_sessions: [id, game_id, room_id, status, created_by]
    gparts,     \* table game_participants: [id, game_session_id, user_id, score, left]
    connectedUsers, \* userId -> set of socket ids
    socketToUser,   \* socket id -> userId ("none" when not connected)
    sockets,    \* socket.io's open connections: socket id -> socket.userId
    subs,       \* socket id -> the room channels it is subscribed to
    io,         \* the socket server of initializeSocket (FALSE: not initialized)
    emitted,    \* the events the last step emitted
    pc, loc,
    res,        \* the outcome of the request the last step completed
    ncalls      \* requests started so far

vars == <<rooms, parts, reqs, nextReq, sessions, gparts, connectedUsers,
          socketToUser, sockets, subs, io, emitted, pc, loc, res, ncalls>>

dbRoom == <<rooms, parts, reqs, nextReq>>
dbGame == <<sessions, gparts>>
registry == <<connectedUsers, socketToUser, sockets, subs, io>>

\* ------------------------------------------------------- schema and queries

\* UNIQUE KEY unique_room_user (room_id, user_id, is_active): may `row` be
\* written (inserted, or stored in place of the row with its id) into ps?
MutUniqueRoomUser(ps, row) == TRUE
UniqueRoomUser(ps, row) ==
    \A x \in ps : x.id # row.id =>
        ~(x.room_id = row.room_id /\ x.user_id = row.user_id
          /\ x.is_active = row.is_active)

\* SELECT id FROM room_participants WHERE room_id = ? AND user_id = ? AND is_active = TRUE
MutActiveRowsAnyUser(ps, r, u) ==
    {x \in ps : x.room_id = r /\ x.is_active}
ActiveRows(ps, r, u) ==
    {x \in ps : x.room_id = r /\ x.user_id = u /\ x.is_active}

\* SELECT id FROM room_participants WHERE room_id = ? AND user_id = ? AND is_active = FALSE
MutInactiveRowsNone(ps, r, u) == {}
InactiveRows(ps, r, u) ==
    {x \in ps : x.room_id = r /\ x.user_id = u /\ ~x.is_active}

\* SELECT id FROM room_join_requests WHERE room_id = ? AND user_id = ? AND status = 'accepted'
MutAcceptedAnyStatus(rq, r, u) ==
    {x \in rq : x.room_id = r /\ x.user_id = u}
AcceptedRequests(rq, r, u) ==
    {x \in rq : x.room_id = r /\ x.user_id = u /\ x.status = "accepted"}

\* SELECT id FROM room_join_requests WHERE room_id = ? AND user_id = ? AND status = 'pending'
PendingRequests(rq, r, u) ==
    {x \in rq : x.room_id = r /\ x.user_id = u /\ x.status = "pending"}

\* INSERT INTO room_participants (id, room_id, user_id): is_active DEFAULT TRUE.
MutNewParticipantInactive(ps, r, u) ==
    [id |-> Cardinality(ps) + 1, room_id |-> r, user_id |-> u, is_active |-> FALSE]
NewParticipant(ps, r, u) ==
    [id |-> Cardinality(ps) + 1, room_id |-> r, user_id |-> u, is_active |-> TRUE]

\* UPDATE room_participants SET is_active = ? ... WHERE id = ?
SetActive(ps, id, a) ==
    {IF x.id = id THEN [x EXCEPT !.is_active = a] ELSE x : x \in ps}

RowById(ps, id) == {x \in ps : x.id = id}

RoomById(rs, r) == {x \in rs : x.id = r}

\* s LIKE pat, as SQL matches it: "%" in the pattern stands for any run of
\* characters, "_" for any one character, every other character for itself.
RECURSIVE Like(_, _)
Like(s, pat) ==
    IF pat = <<>>
    THEN s = <<>>
    ELSE IF Head(pat) = "%"
         THEN Like(s, Tail(pat)) \/ (s # <<>> /\ Like(Tail(s), pat))
         ELSE /\ s # <<>>
              /\ Head(pat) = "_" \/ Head(pat) = Head(s)
              /\ Like(Tail(s), Tail(pat))

\* `name like "%${name}%"`: the name the client sent is pasted into the
\* pattern, so its own "%" and "_" are wildcards too.
Contains(h, n) == Like(h, <<"%">> \o n \o <<"%">>)

\* getRoomDetails: the active participants of the room and their count
\* (the room's own attributes are read from rooms).
GetRoomDetails(rs, ps, r) ==
    LET act == {x \in ps : x.room_id = r /\ x.is_active}
    IN [found |-> RoomById(rs, r) # {},
        participants |-> act,
        participants_count |-> Cardinality(act)]

\* getUserActiveRooms: rooms joined to the user's active participant rows.
GetUserActiveRooms(rs, ps, u) ==
    {x.room_id : x \in {y \in ps : y.user_id = u /\ y.is_active
                                   /\ RoomById(rs, y.room_id) # {}}}

\* ---------------------------------------------------------------- processes

NoLoc == [op |-> "idle", ret |-> "none", user |-> "none", room |-> 0,
          sock |-> "none", req |-> 0, row |-> 0, accept |-> FALSE,
          snap |-> {}, todo |-> {}, name |-> <<>>, type |-> "none",
          lock |-> "none", sess |-> 0, game |-> "none", status |-> "none",
          score |-> 0, delta |-> 0, typeof |-> "none", max |-> 0,
          target |-> "none",
          want |-> FALSE, cont |-> "none"]

NoRes == [op |-> "none", user |-> "none", room |-> 0, out |-> "none",
          at |-> "none"]

Idle(p) == pc[p] = "idle"
AllIdle == \A q \in Procs : pc[q] = "idle"

\* The request of p ends with outcome out.
Done(p, out) ==
    /\ pc' = [pc EXCEPT ![p] = "idle"]
    /\ res' = [op |-> loc[p].op, user |-> loc[p].user,
               room |-> loc[p].room, out |-> out, at |-> pc[p]]
    /\ loc' = [loc EXCEPT ![p] = NoLoc]

Goto(p, label) ==
    /\ pc' = [pc EXCEPT ![p] = label]
    /\ res' = NoRes

\* p calls a function that runs several statements: it goes to the first of
\* them, and the function's last statement is taken with what the caller
\* does on return, at the caller's label k.
Call(p, label, k) ==
    /\ pc' = [pc EXCEPT ![p] = label]
    /\ loc' = [loc EXCEPT ![p].cont = k]
    /\ res' = NoRes

FirstIdle(p) == Idle(p) /\ \A q \in Procs : Idle(q) => p <= q

Begin(p, label, l) ==
    /\ FirstIdle(p)
    /\ pc' = [pc EXCEPT ![p] = label]
    /\ loc' = [loc EXCEPT ![p] = l]
    /\ ncalls' = ncalls + 1
    /\ res' = NoRes

\* The step emits nothing.
Quiet == emitted' = {}

Event(ev, r, u, why) == [ev |-> ev, room |-> r, user |-> u, reason |-> why]

\* try { socket.getIO().to(room).emit(...) } catch (socketErr) { log }: what
\* a service sends to a room.  getIO throws while the socket server is not
\* initialized, and the catch block swallows the error.
Broadcast(evs) == IF io THEN evs ELSE {}

Init ==
    /\ rooms = {}
    /\ parts = {}
    /\ reqs = {}
    /\ nextReq = 0
    /\ sessions = {}
    /\ gparts = {}
    /\ connectedUsers = [u \in {} |-> {}]
    /\ socketToUser = [s \in Socks |-> "none"]
    /\ sockets = [s \in Socks |-> "none"]
    /\ subs = [s \in Socks |-> {}]
    /\ io = TRUE
    /\ emitted = {}
    /\ pc = [p \in Procs |-> "idle"]
    /\ loc = [p \in Procs |-> NoLoc]
    /\ res = NoRes
    /\ ncalls = 0


\* --------------------------------------------------- joinRoom (roomService)

\* How joinRoom hands its outcome back: to the HTTP controller, or to the
\* join-room socket handler, which goes on to getRoomDetails or, when
\* joinRoom threw, emits room-join-error from its catch.
JoinRoomReturn(p, out) ==
    IF loc[p].ret = "http"
    THEN Done(p, out) /\ Quiet
    ELSE IF out = "ok"
         THEN Call(p, "grd_room", "sj_details") /\ Quiet
         ELSE /\ Done(p, "room-join-error")
              /\ emitted' =
                   {Event("room-join-error", loc[p].room, loc[p].user, "none")}

\* roomController.joinRoom: POST /rooms/join/:room_id
StartJoinRoom(p, u, r) ==
    /\ Begin(p, "jr_room", [NoLoc EXCEPT !.op = "joinRoom", !.ret = "http",
                                         !.user = u, !.room = r])
    /\ UNCHANGED <<dbRoom, dbGame, registry>> /\ Quiet

\* SELECT id, is_locked FROM rooms WHERE id = ?
JR_Room(p) ==
    /\ pc[p] = "jr_room"
    /\ UNCHANGED <<dbRoom, dbGame, registry, ncalls>>
    /\ LET rm == RoomById(rooms, loc[p].room) IN
       IF rm = {}
       THEN JoinRoomReturn(p, "e404")
       ELSE /\ Goto(p, IF (CHOOSE x \in rm : TRUE).is_locked
                       THEN "jr_req" ELSE "jr_active")
            /\ UNCHANGED loc /\ Quiet

\* The accepted join request of the user, if any (the first row returned).
JR_Req(p) ==
    /\ pc[p] = "jr_req"
    /\ UNCHANGED <<dbRoom, dbGame, registry, ncalls>>
    /\ LET acc == AcceptedRequests(reqs, loc[p].room, loc[p].user) IN
       IF acc = {}
       THEN JoinRoomReturn(p, "e403")
       ELSE /\ \E x \in acc : loc' = [loc EXCEPT ![p].req = x.id]
            /\ Goto(p, "jr_del")
            /\ Quiet

\* DELETE FROM room_join_requests WHERE id = ?  (snap keeps the rows this
\* statement removed: none when another call has deleted the row already)
JR_Del(p) ==
    /\ pc[p] = "jr_del"
    /\ reqs' = {x \in reqs : x.id # loc[p].req}
    /\ loc' = [loc EXCEPT ![p].snap = {x \in reqs : x.id = loc[p].req}]
    /\ Goto(p, "jr_active")
    /\ UNCHANGED <<rooms, parts, nextReq, dbGame, registry, ncalls>> /\ Quiet

\* Already an active participant: return without writing.
JR_Active(p) ==
    /\ pc[p] = "jr_active"
    /\ UNCHANGED <<dbRoom, dbGame, registry, ncalls>>
    /\ IF ActiveRows(parts, loc[p].room, loc[p].user) # {}
       THEN JoinRoomReturn(p, "ok")
       ELSE Goto(p, "jr_inactive") /\ UNCHANGED loc /\ Quiet

\* Was the user in the room before?
JR_Inactive(p) ==
    /\ pc[p] = "jr_inactive"
    /\ UNCHANGED <<dbRoom, dbGame, registry, ncalls>> /\ Quiet
    /\ LET old == InactiveRows(parts, loc[p].room, loc[p].user) IN
       IF old # {}
       THEN /\ \E x \in old : loc' = [loc EXCEPT ![p].row = x.id]
            /\ Goto(p, "jr_react")
       ELSE Goto(p, "jr_insert") /\ UNCHANGED loc

\* UPDATE room_participants SET is_active = TRUE, left_at = NULL ... WHERE id = ?
JR_React(p) ==
    /\ pc[p] = "jr_react"
    /\ UNCHANGED <<rooms, reqs, nextReq, dbGame, registry, ncalls>>
    /\ LET cur == CHOOSE x \in RowById(parts, loc[p].row) : TRUE
           new == [cur EXCEPT !.is_active = TRUE] IN
       IF UniqueRoomUser(parts, new)
       THEN /\ parts' = SetActive(parts, loc[p].row, TRUE)
            /\ JoinRoomReturn(p, "ok")
       ELSE /\ UNCHANGED parts
            /\ JoinRoomReturn(p, "e500")

\* INSERT INTO room_participants (id, room_id, user_id)
JR_Insert(p) ==
    /\ pc[p] = "jr_insert"
    /\ UNCHANGED <<rooms, reqs, nextReq, dbGame, registry, ncalls>>
    /\ LET new == NewParticipant(parts, loc[p].room, loc[p].user) IN
       IF UniqueRoomUser(parts, new)
       THEN /\ parts' = parts \cup {new}
            /\ JoinRoomReturn(p, "ok")
       ELSE /\ UNCHANGED parts
            /\ JoinRoomReturn(p, "e500")

\* -------------------------------------------------- leaveRoom (roomService)

\* How leaveRoom hands its outcome back: to the HTTP controller, to the
\* leave-room socket handler (which emits user-left unless leaveRoom threw),
\* or to the disconnect handler's loop over the user's rooms, which a throw
\* ends.
LeaveRoomReturn(p, out) ==
    CASE loc[p].ret = "http" ->
           Done(p, out) /\ Quiet
      [] loc[p].ret = "sock_leave" ->
           /\ Done(p, IF out = "e500" THEN "caught" ELSE out)
           /\ emitted' = IF out = "e500" THEN {}
                         ELSE
                              {Event("user-left", loc[p].room, loc[p].user, "none")}
      [] OTHER ->
           IF out = "e500"
           THEN Done(p, "caught") /\ Quiet
           ELSE /\ emitted' =
                     {Event("user-left", loc[p].room, loc[p].user, "disconnected")}
                /\ IF loc[p].todo = {}
                   THEN Done(p, "ok")
                   ELSE /\ \E r \in loc[p].todo :
                             loc' = [loc EXCEPT ![p].room = r,
                                                ![p].todo = @ \ {r}]
                        /\ Goto(p, "lr_active")

\* roomController.leaveRoom: POST /rooms/leave/:room_id
StartLeaveRoom(p, u, r) ==
    /\ Begin(p, "lr_active", [NoLoc EXCEPT !.op = "leaveRoom", !.ret = "http",
                                           !.user = u, !.room = r])
    /\ UNCHANGED <<dbRoom, dbGame, registry>> /\ Quiet

\* Is the user in the room?
LR_Active(p) ==
    /\ pc[p] = "lr_active"
    /\ UNCHANGED <<dbRoom, dbGame, registry, ncalls>>
    /\ LET act == ActiveRows(parts, loc[p].room, loc[p].user) IN
       IF act = {}
       THEN LeaveRoomReturn(p, "false")
       ELSE /\ \E x \in act : loc' = [loc EXCEPT ![p].row = x.id]
            /\ Goto(p, "lr_update")
            /\ Quiet

\* UPDATE room_participants SET is_active = FALSE, left_at = NOW() WHERE id = ?
LR_Update(p) ==
    /\ pc[p] = "lr_update"
    /\ UNCHANGED <<rooms, reqs, nextReq, dbGame, registry, ncalls>>
    /\ LET cur == CHOOSE x \in RowById(parts, loc[p].row) : TRUE
           new == [cur EXCEPT !.is_active = FALSE] IN
       IF UniqueRoomUser(parts, new)
       THEN /\ parts' = SetActive(parts, loc[p].row, FALSE)
            /\ Goto(p, "lr_count")
            /\ UNCHANGED loc /\ Quiet
       ELSE /\ UNCHANGED parts
            /\ LeaveRoomReturn(p, "e500")

\* SELECT COUNT(*) of the active participants; an empty room is only logged.
LR_Count(p) ==
    /\ pc[p] = "lr_count"
    /\ UNCHANGED <<dbRoom, dbGame, registry, ncalls>>
    /\ LeaveRoomReturn(p, "true")

\* --------------------------------------------- realtime gateway (socket.js)

\* io.on('connection'): socket.io has opened the socket for the user of its
\* token; register it under that user in both maps.  The socket is a new
\* one: it is in no room channel, whatever an earlier connection of the
\* device was subscribed to, and a handler of that earlier connection which
\* is still running holds the closed socket, not this one.
Connect(s, u) ==
    /\ sockets[s] = "none"
    /\ loc' = [q \in Procs |->
                IF loc[q].sock = s THEN [loc[q] EXCEPT !.sock = "closed"]
                                   ELSE loc[q]]
    /\ sockets' = [sockets EXCEPT ![s] = u]
    /\ connectedUsers' =
         [v \in DOMAIN connectedUsers \cup {u} |->
            IF v = u
            THEN (IF u \in DOMAIN connectedUsers THEN connectedUsers[u] ELSE {})
                 \cup {s}
            ELSE connectedUsers[v]]
    /\ socketToUser' = [socketToUser EXCEPT ![s] = u]
    /\ subs' = [subs EXCEPT ![s] = {}]
    /\ UNCHANGED <<dbRoom, dbGame, io, pc, ncalls>> /\ Quiet /\ res' = NoRes

\* socket.on('join-room')
StartSockJoin(p, s, r) ==
    /\ sockets[s] # "none"
    /\ Begin(p, "sj_can", [NoLoc EXCEPT !.op = "join-room", !.ret = "sock_join",
                                        !.user = sockets[s], !.sock = s,
                                        !.room = r])
    /\ UNCHANGED <<dbRoom, dbGame, registry>> /\ Quiet

\* canJoin is true: subscribe the socket to the room channel, tell the room,
\* then call joinRoom.
Admit(p) ==
    /\ subs' = IF loc[p].sock \in Socks
               THEN [subs EXCEPT ![loc[p].sock] = @ \cup {loc[p].room}]
               ELSE subs
    /\ emitted' =
         {Event("user-joined", loc[p].room, loc[p].user, "none")}
    /\ Goto(p, "jr_room")
    /\ UNCHANGED loc

\* canJoin is false: room-join-error to the caller.
Refuse(p) ==
    /\ emitted' =
         {Event("room-join-error", loc[p].room, loc[p].user, "none")}
    /\ Done(p, "room-join-error")
    /\ UNCHANGED subs

\* canUserJoinRoom once the room is read: the host can always join, and
\* anybody can join a room that is not locked.
MutHostOnly(room, u) == room.host_id = u
HostOrUnlocked(room, u) == room.host_id = u \/ ~room.is_locked

\* canUserJoinRoom, first query: SELECT is_locked, host_id FROM rooms WHERE id = ?
SJ_Can(p) ==
    /\ pc[p] = "sj_can"
    /\ UNCHANGED <<dbRoom, dbGame, connectedUsers, socketToUser, sockets, io, ncalls>>
    /\ LET rm == RoomById(rooms, loc[p].room) IN
       IF rm = {}
       THEN Refuse(p)
       ELSE LET room == CHOOSE x \in rm : TRUE IN
            IF HostOrUnlocked(room, loc[p].user)
            THEN Admit(p)
            ELSE Goto(p, "sj_canreq") /\ UNCHANGED <<loc, subs>> /\ Quiet

\* canUserJoinRoom, second query: an accepted join request?
SJ_CanReq(p) ==
    /\ pc[p] = "sj_canreq"
    /\ UNCHANGED <<dbRoom, dbGame, connectedUsers, socketToUser, sockets, io, ncalls>>
    /\ IF AcceptedRequests(reqs, loc[p].room, loc[p].user) # {}
       THEN Admit(p)
       ELSE Refuse(p)

\* The last statement of getRoomDetails (the room's active game sessions),
\* then room-data to the caller.
SJ_Details(p) ==
    /\ pc[p] = "sj_details"
    /\ UNCHANGED <<dbRoom, dbGame, registry, ncalls>>
    /\ emitted' =
         {Event("room-data", loc[p].room, loc[p].user, "none")}
    /\ Done(p, "ok")

\* socket.on('leave-room'): leave the channel at once, then leaveRoom.
StartSockLeave(p, s, r) ==
    /\ sockets[s] # "none"
    /\ subs' = [subs EXCEPT ![s] = @ \ {r}]
    /\ Begin(p, "lr_active", [NoLoc EXCEPT !.op = "leave-room",
                                           !.ret = "sock_leave",
                                           !.user = sockets[s],
                                           !.sock = s, !.room = r])
    /\ UNCHANGED <<dbRoom, dbGame, connectedUsers, socketToUser, sockets, io>> /\ Quiet

\* The disconnect handler's removal from connectedUsers: the socket leaves
\* the user's set, and an emptied set leaves the map.
MutDropSocketKeepEmpty(cu, u, s) ==
    IF u \in DOMAIN cu THEN [cu EXCEPT ![u] = @ \ {s}] ELSE cu
DropSocket(cu, u, s) ==
    IF u \notin DOMAIN cu
    THEN cu
    ELSE IF cu[u] \ {s} = {}
         THEN [v \in DOMAIN cu \ {u} |-> cu[v]]
         ELSE [cu EXCEPT ![u] = @ \ {s}]

\* socket.on('disconnect'): drop the socket from both maps (socket.io has
\* closed it and taken it out of its channels), then leave every room of
\* the user.
StartDisconnect(p, s) ==
    /\ sockets[s] # "none"
    /\ connectedUsers' = DropSocket(connectedUsers, sockets[s], s)
    /\ Begin(p, "dc_rooms", [NoLoc EXCEPT !.op = "disconnect", !.ret = "disc",
                                          !.user = sockets[s], !.sock = s])
    /\ socketToUser' = [socketToUser EXCEPT ![s] = "none"]
    /\ sockets' = [sockets EXCEPT ![s] = "none"]
    /\ subs' = [subs EXCEPT ![s] = {}]
    /\ UNCHANGED <<dbRoom, dbGame, io>> /\ Quiet

\* getUserActiveRooms, then the first turn of the loop.
DC_Rooms(p) ==
    /\ pc[p] = "dc_rooms"
    /\ UNCHANGED <<dbRoom, dbGame, registry, ncalls>> /\ Quiet
    /\ LET rs == GetUserActiveRooms(rooms, parts, loc[p].user) IN
       IF rs = {}
       THEN Done(p, "ok")
       ELSE /\ \E r \in rs :
                 loc' = [loc EXCEPT ![p].room = r, ![p].snap = rs,
                                    ![p].todo = rs \ {r}]
            /\ Goto(p, "lr_active")


\* isUserOnline
IsUserOnline(u) ==
    u \in DOMAIN connectedUsers /\ Cardinality(connectedUsers[u]) > 0

\* connectedUsers.get(userId), as emitToUser iterates it.
MutSocketsOfAnyone(u) == UNION {connectedUsers[v] : v \in DOMAIN connectedUsers}
SocketsOf(u) == IF u \in DOMAIN connectedUsers THEN connectedUsers[u] ELSE {}

\* emitToUser(userId, event, data) called by a service: the event goes to
\* each socket of the user and true is returned when the user is online,
\* false and nothing otherwise.
CallEmitToUser(u) ==
    /\ emitted' = IF IsUserOnline(u)
                  THEN {[ev |-> "direct", room |-> 0, user |-> u,
                         reason |-> "none", to |-> s] : s \in SocketsOf(u)}
                  ELSE {}
    /\ res' = [op |-> "emitToUser", user |-> u, room |-> 0,
               out |-> IF IsUserOnline(u) THEN "true" ELSE "false",
               at |-> "none"]
    /\ UNCHANGED <<dbRoom, dbGame, registry, pc, loc, ncalls>>

\* emitToUser: the event reaches the user's sockets when the user is online.
EmitToUser(u, ev, r) ==
    IF IsUserOnline(u) THEN {Event(ev, r, u, "none")} ELSE {}

\* --------------------------------------------- getRoomDetails (roomService)

\* SELECT r.id, r.name, ... FROM rooms r JOIN users u ... WHERE r.id = ?
\* Without the room the function throws 404 to its caller.
GRD_Room(p) ==
    /\ pc[p] = "grd_room"
    /\ UNCHANGED <<dbRoom, dbGame, registry, ncalls>>
    /\ IF RoomById(rooms, loc[p].room) = {}
       THEN IF loc[p].ret = "http"
            THEN Done(p, "e404") /\ Quiet
            ELSE /\ Done(p, IF loc[p].ret = "sock_req"
                            THEN "request-join-error" ELSE "room-join-error")
                 /\ emitted' =
                      {Event(IF loc[p].ret = "sock_req"
                             THEN "request-join-error" ELSE "room-join-error",
                             loc[p].room, loc[p].user, "none")}
       ELSE Goto(p, "grd_parts") /\ UNCHANGED loc /\ Quiet

\* SELECT ... FROM room_participants rp ... WHERE rp.room_id = ? AND
\* rp.is_active = TRUE; the third statement is taken at the caller's label.
GRD_Parts(p) ==
    /\ pc[p] = "grd_parts"
    /\ Goto(p, loc[p].cont)
    /\ UNCHANGED <<dbRoom, dbGame, registry, loc, ncalls>> /\ Quiet

\* --------------------------------------------- getGameSession (gameService)

\* SELECT gs.id, ... FROM game_sessions gs JOIN games g ... WHERE gs.id = ?
\* (404 without the session); the participants are read at the caller's
\* label.
GGS_Sess(p) ==
    /\ pc[p] = "ggs_sess"
    /\ UNCHANGED <<dbRoom, dbGame, registry, ncalls>> /\ Quiet
    /\ IF {x \in sessions : x.id = loc[p].sess} = {}
       THEN Done(p, "e404")
       ELSE Goto(p, loc[p].cont) /\ UNCHANGED loc

\* ------------------------------------------------- createRoom (roomService)

\* roomController.createRoom; the type is validated before the first query.
StartCreateRoom(p, u, n, t) ==
    /\ Cardinality(rooms) + Cardinality({q \in Procs : loc[q].op = "createRoom"})
         < Cardinality(RoomIds)
    /\ IF t \notin {"none", "public", "private"}
       THEN /\ FirstIdle(p)
            /\ res' = [op |-> "createRoom", user |-> u, room |-> 0,
                       out |-> "e400", at |-> "validate"]
            /\ ncalls' = ncalls + 1
            /\ UNCHANGED <<pc, loc>>
       ELSE Begin(p, "cr_exists", [NoLoc EXCEPT !.op = "createRoom",
                                                !.ret = "http", !.user = u,
                                                !.name = n, !.type = t])
    /\ UNCHANGED <<dbRoom, dbGame, registry>> /\ Quiet

\* SELECT id FROM rooms WHERE host_id = ? and name = ?
CR_Exists(p) ==
    /\ pc[p] = "cr_exists"
    /\ UNCHANGED <<dbRoom, dbGame, registry, ncalls>> /\ Quiet
    /\ IF \E x \in rooms : x.host_id = loc[p].user /\ x.name = loc[p].name
       THEN Done(p, "e400")
       ELSE Goto(p, "cr_insert") /\ UNCHANGED loc

\* INSERT INTO rooms (id, name, type, host_id): is_locked DEFAULT FALSE.
CR_Insert(p) ==
    /\ pc[p] = "cr_insert"
    /\ LET id == Cardinality(rooms) + 1 IN
       /\ rooms' = rooms \cup
            {[id |-> id, name |-> loc[p].name,
              type |-> IF loc[p].type = "none" THEN "public" ELSE loc[p].type,
              is_locked |-> FALSE, host_id |-> loc[p].user]}
       /\ loc' = [loc EXCEPT ![p].room = id]
    /\ Goto(p, "cr_part")
    /\ UNCHANGED <<parts, reqs, nextReq, dbGame, registry, ncalls>> /\ Quiet

\* Add the host as participant.
CR_Part(p) ==
    /\ pc[p] = "cr_part"
    /\ UNCHANGED <<rooms, reqs, nextReq, dbGame, registry, ncalls>> /\ Quiet
    /\ LET new == NewParticipant(parts, loc[p].room, loc[p].user) IN
       IF UniqueRoomUser(parts, new)
       THEN /\ parts' = parts \cup {new}
            /\ Call(p, "grd_room", "cr_details")
       ELSE /\ UNCHANGED parts
            /\ Done(p, "e500")

\* return getRoomDetails(roomId): its last statement (the room's active
\* game sessions) and the answer.
CR_Details(p) ==
    /\ pc[p] = "cr_details"
    /\ UNCHANGED <<dbRoom, dbGame, registry, ncalls>> /\ Quiet
    /\ Done(p, "ok")

\* ------------------------------------------------- updateRoom (roomService)

\* roomController.updateRoom: PUT /rooms/:room_id; absent fields are
\* n = <<>>, t = "none", l = "none".  The route's validators answer 400 to
\* a type that is neither public nor private before the service is called.
StartUpdateRoom(p, u, r, n, t, l) ==
    /\ IF t \notin {"none", "public", "private"}
       THEN /\ FirstIdle(p)
            /\ res' = [op |-> "updateRoom", user |-> u, room |-> r,
                       out |-> "e400", at |-> "validate"]
            /\ ncalls' = ncalls + 1
            /\ UNCHANGED <<pc, loc>>
       ELSE Begin(p, "ur_room", [NoLoc EXCEPT !.op = "updateRoom",
                                              !.ret = "http", !.user = u,
                                              !.room = r, !.name = n,
                                              !.type = t, !.lock = l])
    /\ UNCHANGED <<dbRoom, dbGame, registry>> /\ Quiet

\* After the checks: validate the type (the route has refused a wrong one
\* already), and write only if a field is set.
UR_Prepare(p) ==
    IF loc[p].type # "none" /\ loc[p].type \notin {"public", "private"}
    THEN Done(p, "e400")
    ELSE IF loc[p].name = <<>> /\ loc[p].type = "none" /\ loc[p].lock = "none"
         THEN Call(p, "grd_room", "ur_details")
         ELSE Goto(p, "ur_write") /\ UNCHANGED loc

\* SELECT id, host_id FROM rooms WHERE id = ?
UR_Room(p) ==
    /\ pc[p] = "ur_room"
    /\ UNCHANGED <<dbRoom, dbGame, registry, ncalls>> /\ Quiet
    /\ LET rm == RoomById(rooms, loc[p].room) IN
       IF rm = {}
       THEN Done(p, "e404")
       ELSE IF (CHOOSE x \in rm : TRUE).host_id # loc[p].user
            THEN Done(p, "e403")
            ELSE IF loc[p].name # <<>>
                 THEN Goto(p, "ur_name") /\ UNCHANGED loc
                 ELSE UR_Prepare(p)

\* SELECT id FROM rooms WHERE host_id = ? and name like "%<name>%"
UR_Name(p) ==
    /\ pc[p] = "ur_name"
    /\ UNCHANGED <<dbRoom, dbGame, registry, ncalls>> /\ Quiet
    /\ IF \E x \in rooms : x.host_id = loc[p].user /\ Contains(x.name, loc[p].name)
       THEN Done(p, "e400")
       ELSE UR_Prepare(p)

\* The UPDATE rooms SET ... statement as updateRoom builds it: only the
\* fields present in the patch are set.
MutPatchedAlsoUnlocks(x, l) ==
    [x EXCEPT !.name = IF l.name # <<>> THEN l.name ELSE @,
              !.type = IF l.type # "none" THEN l.type ELSE @,
              !.is_locked = l.lock = "true"]
Patched(x, l) ==
    [x EXCEPT !.name = IF l.name # <<>> THEN l.name ELSE @,
              !.type = IF l.type # "none" THEN l.type ELSE @,
              !.is_locked = IF l.lock # "none" THEN l.lock = "true" ELSE @]

\* UPDATE rooms SET <the fields present> WHERE id = ?, then
\* io.to(room).emit('room-updated').
UR_Write(p) ==
    /\ pc[p] = "ur_write"
    /\ rooms' = {IF x.id # loc[p].room THEN x ELSE Patched(x, loc[p])
                 : x \in rooms}
    /\ emitted' = Broadcast({Event("room-updated", loc[p].room,
                                   loc[p].user, "none")})
    /\ Call(p, "grd_room", "ur_details")
    /\ UNCHANGED <<parts, reqs, nextReq, dbGame, registry, ncalls>>

\* return getRoomDetails(roomId): its last statement (the room's active
\* game sessions) and the answer.
UR_Details(p) ==
    /\ pc[p] = "ur_details"
    /\ UNCHANGED <<dbRoom, dbGame, registry, ncalls>> /\ Quiet
    /\ Done(p, "ok")

\* ------------------------------------------ createJoinRequest (roomService)

\* roomController.requestJoinRoom: POST /rooms/:room_id/join-request
StartCreateJoinRequest(p, u, r) ==
    /\ nextReq + Cardinality({q \in Procs : loc[q].op \in
                                {"createJoinRequest", "request-room-join"}})
         < Cardinality(ReqIds)
    /\ Begin(p, "cjr_room", [NoLoc EXCEPT !.op = "createJoinRequest",
                                          !.ret = "http", !.user = u, !.room = r])
    /\ UNCHANGED <<dbRoom, dbGame, registry>> /\ Quiet

\* socket.on('request-room-join')
StartSockRequest(p, s, r) ==
    /\ sockets[s] # "none"
    /\ nextReq + Cardinality({q \in Procs : loc[q].op \in
                                {"createJoinRequest", "request-room-join"}})
         < Cardinality(ReqIds)
    /\ Begin(p, "cjr_room", [NoLoc EXCEPT !.op = "request-room-join",
                                          !.ret = "sock_req",
                                          !.user = sockets[s],
                                          !.sock = s, !.room = r])
    /\ UNCHANGED <<dbRoom, dbGame, registry>> /\ Quiet

\* createJoinRequest threw: the controller answers with the error, the
\* socket handler emits request-join-error from its catch.
CJR_Throw(p, out) ==
    IF loc[p].ret = "http"
    THEN Done(p, out) /\ Quiet
    ELSE /\ Done(p, "request-join-error")
         /\ emitted' =
              {Event("request-join-error", loc[p].room, loc[p].user, "none")}

\* SELECT id, host_id, is_locked FROM rooms WHERE id = ?
CJR_Room(p) ==
    /\ pc[p] = "cjr_room"
    /\ UNCHANGED <<dbRoom, dbGame, registry, ncalls>>
    /\ LET rm == RoomById(rooms, loc[p].room) IN
       IF rm = {}
       THEN CJR_Throw(p, "e404")
       ELSE LET room == CHOOSE x \in rm : TRUE IN
            IF ~room.is_locked
            THEN CJR_Throw(p, "e400")
            ELSE /\ loc' = [loc EXCEPT ![p].target = room.host_id]
                 /\ Goto(p, "cjr_pending")
                 /\ Quiet

\* A pending request of the user for the room?
CJR_Pending(p) ==
    /\ pc[p] = "cjr_pending"
    /\ UNCHANGED <<dbRoom, dbGame, registry, ncalls>>
    /\ IF PendingRequests(reqs, loc[p].room, loc[p].user) # {}
       THEN CJR_Throw(p, "e400")
       ELSE Goto(p, "cjr_insert") /\ UNCHANGED loc /\ Quiet

\* INSERT INTO room_join_requests (id, room_id, user_id): status DEFAULT 'pending'.
CJR_Insert(p) ==
    /\ pc[p] = "cjr_insert"
    /\ nextReq' = nextReq + 1
    /\ reqs' = reqs \cup {[id |-> nextReq + 1, room_id |-> loc[p].room,
                           user_id |-> loc[p].user, status |-> "pending"]}
    /\ loc' = [loc EXCEPT ![p].req = nextReq + 1]
    /\ Goto(p, "cjr_user")
    /\ UNCHANGED <<rooms, parts, dbGame, registry, ncalls>> /\ Quiet

\* SELECT username FROM users WHERE id = ?, then createNotification for the
\* host.
CJR_User(p) ==
    /\ pc[p] = "cjr_user"
    /\ Call(p, "cn_settings", "cjr_notify")
    /\ UNCHANGED <<dbRoom, dbGame, registry, ncalls>> /\ Quiet

\* createNotification has returned and createJoinRequest returns the
\* request: the controller answers; the socket handler goes on to
\* getRoomDetails.
CJR_Notify(p) ==
    /\ UNCHANGED <<dbRoom, dbGame, registry, ncalls>>
    /\ IF loc[p].ret = "http"
       THEN Done(p, "ok") /\ Quiet
       ELSE Call(p, "grd_room", "sq_host") /\ Quiet

\* notificationService.createNotification throws (its INSERT fails):
\* createJoinRequest has no handler around the call, so its own catch
\* rethrows the error to the caller; in the socket handler, whose own
\* createNotification call can fail as well, the catch emits
\* request-join-error.  The inserted row stays.
CJR_NotifyFails(p) ==
    /\ pc[p] = "cn_insert"
    /\ loc[p].cont \in {"cjr_notify", "sq_notify"}
    /\ UNCHANGED <<dbRoom, dbGame, registry, ncalls>>
    /\ CJR_Throw(p, "e500")

\* request-room-join handler: the last statement of getRoomDetails, then
\* createNotification for the host of the room.
SQ_Host(p) ==
    /\ pc[p] = "sq_host"
    /\ Call(p, "cn_settings", "sq_notify")
    /\ UNCHANGED <<dbRoom, dbGame, registry, ncalls>> /\ Quiet

\* The handler's createNotification has returned, and room-join-request
\* goes to the host's sockets.
SQ_Notify(p) ==
    /\ UNCHANGED <<dbRoom, dbGame, registry, ncalls>>
    /\ emitted' =
         EmitToUser(loc[p].target, "room-join-request", loc[p].room)
    /\ Done(p, "ok")

\* ------------------------------------------ updateJoinRequest (roomService)

\* What JavaScript takes a string for in `accept ? 'accepted' : 'rejected'`:
\* true unless the string is empty.
Truthy(v) == v # ""

\* roomController.respondToJoinRequest: PUT /rooms/join-request/:request_id,
\* by any authenticated user u; accept is the boolean of the body.
StartRespond(p, u, id, a) ==
    /\ Begin(p, "ujr_read", [NoLoc EXCEPT !.op = "updateJoinRequest",
                                          !.ret = "http", !.user = u,
                                          !.req = id, !.accept = a,
                                          !.want = a])
    /\ UNCHANGED <<dbRoom, dbGame, registry>> /\ Quiet

\* socket.on('respond-join-request'): the handler hands updateJoinRequest the
\* string 'accepted' or 'rejected' as its accept argument.
StartSockRespond(p, s, id, a) ==
    /\ sockets[s] # "none"
    /\ Begin(p, "ujr_read", [NoLoc EXCEPT !.op = "respond-join-request",
                                          !.ret = "sock_resp",
                                          !.user = sockets[s], !.sock = s,
                                          !.req = id,
                                          !.accept = Truthy(IF a THEN "accepted"
                                                                 ELSE "rejected"),
                                          !.want = a])
    /\ UNCHANGED <<dbRoom, dbGame, registry>> /\ Quiet

UJR_Throw(p, out) ==
    Done(p, IF loc[p].ret = "http" THEN out ELSE "caught")

\* updateJoinRequest returned: the controller answers; the socket handler
\* tells the requester, by the accept flag the client sent.
UJR_Return(p) ==
    IF loc[p].ret = "http"
    THEN /\ Done(p, IF loc[p].accept THEN "accepted" ELSE "rejected")
         /\ Quiet
    ELSE /\ Done(p, IF loc[p].accept THEN "accepted" ELSE "rejected")
         /\ emitted' =
              EmitToUser(loc[p].target,
                         IF loc[p].want THEN "join-request-accepted"
                                        ELSE "join-request-rejected",
                         loc[p].room)

\* SELECT id, room_id, user_id, status FROM room_join_requests WHERE id = ?
UJR_Read(p) ==
    /\ pc[p] = "ujr_read"
    /\ UNCHANGED <<dbRoom, dbGame, registry, ncalls>> /\ Quiet
    /\ LET rq == {x \in reqs : x.id = loc[p].req} IN
       IF rq = {}
       THEN UJR_Throw(p, "e404")
       ELSE LET request == CHOOSE x \in rq : TRUE IN
            IF request.status # "pending"
            THEN UJR_Throw(p, "e400")
            ELSE /\ loc' = [loc EXCEPT ![p].room = request.room_id,
                                       ![p].target = request.user_id]
                 /\ Goto(p, "ujr_write")

MutUJR_WriteJoins(p) ==
    /\ pc[p] = "ujr_write"
    /\ reqs' = {IF x.id = loc[p].req
                THEN [x EXCEPT !.status = IF loc[p].accept THEN "accepted"
                                                           ELSE "rejected"]
                ELSE x : x \in reqs}
    /\ parts' = IF loc[p].accept
                THEN parts \cup {NewParticipant(parts, loc[p].room, loc[p].target)}
                ELSE parts
    /\ UNCHANGED <<rooms, nextReq, dbGame, registry, ncalls>>
    /\ IF loc[p].accept
       THEN Goto(p, "ujr_room") /\ UNCHANGED loc /\ Quiet
       ELSE UJR_Return(p)

\* UPDATE room_join_requests SET status = ? WHERE id = ?
UJR_Write(p) ==
    /\ pc[p] = "ujr_write"
    /\ reqs' = {IF x.id = loc[p].req
                THEN [x EXCEPT !.status = IF loc[p].accept THEN "accepted"
                                                           ELSE "rejected"]
                ELSE x : x \in reqs}
    /\ UNCHANGED <<rooms, parts, nextReq, dbGame, registry, ncalls>>
    /\ IF loc[p].accept
       THEN Goto(p, "ujr_room") /\ UNCHANGED loc /\ Quiet
       ELSE UJR_Return(p)

\* Accepted: SELECT name FROM rooms WHERE id = ?, then createNotification
\* for the requester.
UJR_Room(p) ==
    /\ pc[p] = "ujr_room"
    /\ Call(p, "cn_settings", "ujr_notify")
    /\ UNCHANGED <<dbRoom, dbGame, registry, ncalls>> /\ Quiet

\* createNotification has returned, the requester is sent
\* room-join-accepted and updateJoinRequest returns.  The socket handler
\* then tells the requester by the accept flag the client sent, and after
\* an acceptance calls createNotification itself.
UJR_Notify(p) ==
    /\ UNCHANGED <<dbRoom, dbGame, registry, ncalls>>
    /\ IF loc[p].ret = "http"
       THEN /\ Done(p, "accepted")
            /\ emitted' =
                 EmitToUser(loc[p].target, "room-join-accepted", loc[p].room)
       ELSE /\ emitted' =
                 EmitToUser(loc[p].target, "room-join-accepted", loc[p].room)
                 \cup EmitToUser(loc[p].target,
                                 IF loc[p].want THEN "join-request-accepted"
                                                ELSE "join-request-rejected",
                                 loc[p].room)
            /\ IF loc[p].want
               THEN Call(p, "cn_settings", "sr_notify")
               ELSE Done(p, "accepted")

\* respond-join-request handler: its own createNotification has returned.
SR_Notify(p) ==
    /\ UNCHANGED <<dbRoom, dbGame, registry, ncalls>> /\ Quiet
    /\ Done(p, "accepted")

\* createNotification throws (its INSERT fails) after the request was
\* accepted: the call is outside the try block that guards the socket emit,
\* so updateJoinRequest rethrows the error; the socket handler logs it, as
\* it does when its own createNotification fails.  The status written stays.
UJR_NotifyFails(p) ==
    /\ pc[p] = "cn_insert"
    /\ loc[p].cont \in {"ujr_notify", "sr_notify"}
    /\ UNCHANGED <<dbRoom, dbGame, registry, ncalls>> /\ Quiet
    /\ UJR_Throw(p, "e500")


\* ---------------------------------------- game sessions (the game service)

MaxPlayers(g) == (CHOOSE x \in Games : x.id = g).max_players

MutSessByIdStatusLost(ss, id) ==
    {[x EXCEPT !.status = "active"] : x \in {y \in ss : y.id = id}}
SessById(ss, id) == {x \in ss : x.id = id}

\* SELECT ... FROM game_participants WHERE game_session_id = ? AND left_at IS NULL
OpenRows(gp, sid) == {x \in gp : x.game_session_id = sid /\ ~x.left}

\* ... AND user_id = ? AND left_at IS NULL
OpenRowsOf(gp, sid, u) == {x \in OpenRows(gp, sid) : x.user_id = u}

\* INSERT INTO game_participants (id, game_session_id, user_id): score DEFAULT 0.
NewGameParticipant(gp, sid, u) ==
    [id |-> Cardinality(gp) + 1, game_session_id |-> sid, user_id |-> u,
     score |-> 0, left |-> FALSE]

\* gameController.createGameSession: POST /games/sessions
StartCreateGameSession(p, u, g, r) ==
    /\ Cardinality(sessions)
         + Cardinality({q \in Procs : loc[q].op = "createGameSession"})
         < Cardinality(SessIds)
    /\ Begin(p, "cg_game", [NoLoc EXCEPT !.op = "createGameSession",
                                         !.ret = "http", !.user = u,
                                         !.game = g, !.room = r])
    /\ UNCHANGED <<dbRoom, dbGame, registry>> /\ Quiet

\* SELECT id, min_players, max_players FROM games WHERE id = ?
CG_Game(p) ==
    /\ pc[p] = "cg_game"
    /\ UNCHANGED <<dbRoom, dbGame, registry, ncalls>> /\ Quiet
    /\ IF loc[p].game \notin GameIds
       THEN Done(p, "e404")
       ELSE Goto(p, "cg_room") /\ UNCHANGED loc

\* SELECT id FROM rooms WHERE id = ?
CG_Room(p) ==
    /\ pc[p] = "cg_room"
    /\ UNCHANGED <<dbRoom, dbGame, registry, ncalls>> /\ Quiet
    /\ IF RoomById(rooms, loc[p].room) = {}
       THEN Done(p, "e404")
       ELSE Goto(p, "cg_part") /\ UNCHANGED loc

\* Is the creator in the room?
CG_Part(p) ==
    /\ pc[p] = "cg_part"
    /\ UNCHANGED <<dbRoom, dbGame, registry, ncalls>> /\ Quiet
    /\ IF ActiveRows(parts, loc[p].room, loc[p].user) = {}
       THEN Done(p, "e403")
       ELSE Goto(p, "cg_active") /\ UNCHANGED loc

\* An active session of the same game in the room?
CG_Active(p) ==
    /\ pc[p] = "cg_active"
    /\ UNCHANGED <<dbRoom, dbGame, registry, ncalls>> /\ Quiet
    /\ IF \E x \in sessions : /\ x.room_id = loc[p].room
                              /\ x.game_id = loc[p].game
                              /\ x.status = "active"
       THEN Done(p, "e400")
       ELSE Goto(p, "cg_insert") /\ UNCHANGED loc

\* INSERT INTO game_sessions (id, game_id, room_id, status, created_by)
CG_Insert(p) ==
    /\ pc[p] = "cg_insert"
    /\ LET id == Cardinality(sessions) + 1 IN
       /\ sessions' = sessions \cup
            {[id |-> id, game_id |-> loc[p].game, room_id |-> loc[p].room,
              status |-> "active", created_by |-> loc[p].user]}
       /\ loc' = [loc EXCEPT ![p].sess = id]
    /\ Goto(p, "cg_gpart")
    /\ UNCHANGED <<dbRoom, gparts, registry, ncalls>> /\ Quiet

\* Add the creator as first participant: INSERT INTO game_participants
\* (id, game_session_id, user_id).  When the statement fails (ok false: the
\* connection is lost, a lock wait times out) the catch block logs and
\* rethrows; the session inserted by the statement before stays.
CG_GPart(p, ok) ==
    /\ pc[p] = "cg_gpart"
    /\ UNCHANGED <<dbRoom, sessions, registry, ncalls>> /\ Quiet
    /\ IF ok
       THEN /\ gparts' = gparts \cup
                   {NewGameParticipant(gparts, loc[p].sess, loc[p].user)}
            /\ Call(p, "ggs_sess", "cg_details")
       ELSE /\ UNCHANGED gparts
            /\ Done(p, "e500")

\* return getGameSession(sessionId): its last statement (the participants)
\* and the answer.
CG_Details(p) ==
    /\ pc[p] = "cg_details"
    /\ UNCHANGED <<dbRoom, dbGame, registry, ncalls>> /\ Quiet
    /\ Done(p, "ok")

\* gameController.joinGameSession: POST /games/sessions/:session_id/join
StartJoinGameSession(p, u, sid) ==
    /\ Begin(p, "jg_sess", [NoLoc EXCEPT !.op = "joinGameSession",
                                         !.ret = "http", !.user = u,
                                         !.sess = sid])
    /\ UNCHANGED <<dbRoom, dbGame, registry>> /\ Quiet

\* The session with its game's max_players.
JG_Sess(p) ==
    /\ pc[p] = "jg_sess"
    /\ UNCHANGED <<dbRoom, dbGame, registry, ncalls>> /\ Quiet
    /\ LET ss == SessById(sessions, loc[p].sess) IN
       IF ss = {}
       THEN Done(p, "e404")
       ELSE LET session == CHOOSE x \in ss : TRUE IN
            IF session.status # "active"
            THEN Done(p, "e400")
            ELSE /\ loc' = [loc EXCEPT ![p].room = session.room_id,
                                       ![p].max = MaxPlayers(session.game_id)]
                 /\ Goto(p, "jg_part")

\* Is the user in the room?
JG_Part(p) ==
    /\ pc[p] = "jg_part"
    /\ UNCHANGED <<dbRoom, dbGame, registry, ncalls>> /\ Quiet
    /\ IF ActiveRows(parts, loc[p].room, loc[p].user) = {}
       THEN Done(p, "e403")
       ELSE Goto(p, "jg_gpart") /\ UNCHANGED loc

\* Already in the game: return the session.
JG_GPart(p) ==
    /\ pc[p] = "jg_gpart"
    /\ UNCHANGED <<dbRoom, dbGame, registry, ncalls>> /\ Quiet
    /\ IF OpenRowsOf(gparts, loc[p].sess, loc[p].user) # {}
       THEN Call(p, "ggs_sess", "jg_details")
       ELSE Goto(p, "jg_count") /\ UNCHANGED loc

\* SELECT COUNT(*) of the open participants against max_players.
JG_Count(p) ==
    /\ pc[p] = "jg_count"
    /\ UNCHANGED <<dbRoom, dbGame, registry, ncalls>> /\ Quiet
    /\ IF Cardinality(OpenRows(gparts, loc[p].sess)) >= loc[p].max
       THEN Done(p, "full")
       ELSE Goto(p, "jg_insert") /\ UNCHANGED loc

\* Add the user to the game.
JG_Insert(p) ==
    /\ pc[p] = "jg_insert"
    /\ gparts' = gparts \cup {NewGameParticipant(gparts, loc[p].sess, loc[p].user)}
    /\ Goto(p, "jg_emit")
    /\ UNCHANGED <<dbRoom, sessions, registry, loc, ncalls>> /\ Quiet

\* The user's profile is read and game-player-joined sent to the room.
JG_Emit(p) ==
    /\ pc[p] = "jg_emit"
    /\ emitted' = Broadcast({Event("game-player-joined", loc[p].room,
                                   loc[p].user, "none")})
    /\ Call(p, "ggs_sess", "jg_details")
    /\ UNCHANGED <<dbRoom, dbGame, registry, ncalls>>

\* return getGameSession(sessionId): its last statement (the participants)
\* and the answer.
JG_Details(p) ==
    /\ pc[p] = "jg_details"
    /\ UNCHANGED <<dbRoom, dbGame, registry, ncalls>> /\ Quiet
    /\ Done(p, "ok")

\* gameController.leaveGameSession: POST /games/sessions/:session_id/leave
StartLeaveGameSession(p, u, sid) ==
    /\ Begin(p, "lg_sess", [NoLoc EXCEPT !.op = "leaveGameSession",
                                         !.ret = "http", !.user = u,
                                         !.sess = sid])
    /\ UNCHANGED <<dbRoom, dbGame, registry>> /\ Quiet

\* SELECT id, room_id, status FROM game_sessions WHERE id = ?
LG_Sess(p) ==
    /\ pc[p] = "lg_sess"
    /\ UNCHANGED <<dbRoom, dbGame, registry, ncalls>> /\ Quiet
    /\ LET ss == SessById(sessions, loc[p].sess) IN
       IF ss = {}
       THEN Done(p, "e404")
       ELSE LET session == CHOOSE x \in ss : TRUE IN
            /\ loc' = [loc EXCEPT ![p].room = session.room_id,
                                  ![p].status = session.status]
            /\ Goto(p, "lg_gpart")

\* Is the user in the game?
LG_GPart(p) ==
    /\ pc[p] = "lg_gpart"
    /\ UNCHANGED <<dbRoom, dbGame, registry, ncalls>> /\ Quiet
    /\ LET open == OpenRowsOf(gparts, loc[p].sess, loc[p].user) IN
       IF open = {}
       THEN Done(p, "false")
       ELSE /\ \E x \in open : loc' = [loc EXCEPT ![p].row = x.id]
            /\ Goto(p, "lg_update")

\* UPDATE game_participants SET left_at = NOW() WHERE id = ?
LG_Update(p) ==
    /\ pc[p] = "lg_update"
    /\ gparts' = {IF x.id = loc[p].row THEN [x EXCEPT !.left = TRUE] ELSE x
                  : x \in gparts}
    /\ Goto(p, "lg_count")
    /\ UNCHANGED <<dbRoom, sessions, registry, loc, ncalls>> /\ Quiet

\* Nobody left in a session that was active when it was read: end it;
\* otherwise game-player-left and return.
LG_Count(p) ==
    /\ pc[p] = "lg_count"
    /\ UNCHANGED <<dbRoom, dbGame, registry, ncalls>>
    /\ IF OpenRows(gparts, loc[p].sess) = {} /\ loc[p].status = "active"
       THEN Goto(p, "lg_end") /\ UNCHANGED loc /\ Quiet
       ELSE /\ emitted' = Broadcast({Event("game-player-left", loc[p].room,
                                   loc[p].user, "none")})
            /\ Done(p, "true")

\* UPDATE game_sessions SET status = 'completed', ended_at = NOW() WHERE id = ?
LG_End(p) ==
    /\ pc[p] = "lg_end"
    /\ sessions' = {IF x.id = loc[p].sess THEN [x EXCEPT !.status = "completed"]
                    ELSE x : x \in sessions}
    /\ emitted' = Broadcast({Event("game-player-left", loc[p].room,
                                   loc[p].user, "none")})
    /\ Done(p, "true")
    /\ UNCHANGED <<dbRoom, gparts, registry, ncalls>>

\* Only the creator of the session or the host of its room may end it.
MutMayEndAnyone(session, room, u) == TRUE
MayEndSession(session, room, u) ==
    session.created_by = u \/ room.host_id = u

\* UPDATE game_participants SET left_at = NOW()
\* WHERE game_session_id = ? AND left_at IS NULL
MutMarkAllLeftNone(gp, sid) == gp
MarkAllLeft(gp, sid) ==
    {IF x.game_session_id = sid THEN [x EXCEPT !.left = TRUE] ELSE x : x \in gp}

\* gameController.endGameSession: POST /games/sessions/:session_id/end
StartEndGameSession(p, u, sid) ==
    /\ Begin(p, "eg_sess", [NoLoc EXCEPT !.op = "endGameSession",
                                         !.ret = "http", !.user = u,
                                         !.sess = sid])
    /\ UNCHANGED <<dbRoom, dbGame, registry>> /\ Quiet

\* The session joined to its room: status, created_by, host_id.
EG_Sess(p) ==
    /\ pc[p] = "eg_sess"
    /\ UNCHANGED <<dbRoom, dbGame, registry, ncalls>> /\ Quiet
    /\ LET ss == {x \in SessById(sessions, loc[p].sess) :
                     RoomById(rooms, x.room_id) # {}} IN
       IF ss = {}
       THEN Done(p, "e404")
       ELSE LET session == CHOOSE x \in ss : TRUE
                room == CHOOSE x \in RoomById(rooms, session.room_id) : TRUE IN
            IF session.status # "active"
            THEN Done(p, "e400")
            ELSE IF ~MayEndSession(session, room, loc[p].user)
                 THEN Done(p, "e403")
                 ELSE /\ loc' = [loc EXCEPT ![p].room = session.room_id]
                      /\ Goto(p, "eg_end")

\* UPDATE game_sessions SET status = 'completed', ended_at = NOW() WHERE id = ?
EG_End(p) ==
    /\ pc[p] = "eg_end"
    /\ sessions' = {IF x.id = loc[p].sess THEN [x EXCEPT !.status = "completed"]
                    ELSE x : x \in sessions}
    /\ Goto(p, "eg_parts")
    /\ UNCHANGED <<dbRoom, gparts, registry, loc, ncalls>> /\ Quiet

\* UPDATE game_participants SET left_at = NOW() WHERE game_session_id = ? AND
\* left_at IS NULL, then game-ended to the room.
EG_Parts(p) ==
    /\ pc[p] = "eg_parts"
    /\ gparts' = MarkAllLeft(gparts, loc[p].sess)
    /\ emitted' = Broadcast({Event("game-ended", loc[p].room,
                                   loc[p].user, "none")})
    /\ Done(p, "true")
    /\ UNCHANGED <<dbRoom, sessions, registry, ncalls>>

\* gameController.updatePlayerScore:
\* PUT /games/sessions/:session_id/players/:user_id/score, with a score d
\* that has passed the route's isNumeric; the body's value is handed to the
\* service as it came, a number or a string.
StartUpdatePlayerScore(p, u, sid, d) ==
    /\ Begin(p, "us_sess", [NoLoc EXCEPT !.op = "updatePlayerScore",
                                         !.ret = "http", !.user = u,
                                         !.sess = sid, !.delta = d.value,
                                         !.typeof = d.type])
    /\ UNCHANGED <<dbRoom, dbGame, registry>> /\ Quiet

\* SELECT id, room_id, status FROM game_sessions WHERE id = ? AND status = 'active'
US_Sess(p) ==
    /\ pc[p] = "us_sess"
    /\ UNCHANGED <<dbRoom, dbGame, registry, ncalls>> /\ Quiet
    /\ LET ss == {x \in SessById(sessions, loc[p].sess) : x.status = "active"} IN
       IF ss = {}
       THEN Done(p, "e404")
       ELSE /\ loc' = [loc EXCEPT ![p].room = (CHOOSE x \in ss : TRUE).room_id]
            /\ Goto(p, "us_gpart")

\* The new score is computed from the score read here.
NewScore(old, d) == old + d

\* SELECT id, score of the user's open row; then typeof score !== 'number'
\* is refused with 400, and newScore = participant.score + score.
US_GPart(p) ==
    /\ pc[p] = "us_gpart"
    /\ UNCHANGED <<dbRoom, dbGame, registry, ncalls>> /\ Quiet
    /\ LET open == OpenRowsOf(gparts, loc[p].sess, loc[p].user) IN
       IF open = {}
       THEN Done(p, "e404")
       ELSE IF loc[p].typeof # "number"
       THEN Done(p, "e400")
       ELSE /\ \E x \in open :
                 loc' = [loc EXCEPT ![p].row = x.id,
                                    ![p].score = NewScore(x.score, loc[p].delta)]
            /\ Goto(p, "us_write")

\* UPDATE game_participants SET score = ? WHERE id = ?, then
\* game-score-updated to the room.
MutUS_WriteEmitUnguarded(p) ==
    /\ pc[p] = "us_write"
    /\ gparts' = {IF x.id = loc[p].row THEN [x EXCEPT !.score = loc[p].score]
                  ELSE x : x \in gparts}
    /\ emitted' = Broadcast({Event("game-score-updated", loc[p].room,
                                   loc[p].user, "none")})
    /\ Done(p, IF io THEN "ok" ELSE "e500")
    /\ UNCHANGED <<dbRoom, sessions, registry, ncalls>>
US_Write(p) ==
    /\ pc[p] = "us_write"
    /\ gparts' = {IF x.id = loc[p].row THEN [x EXCEPT !.score = loc[p].score]
                  ELSE x : x \in gparts}
    /\ emitted' = Broadcast({Event("game-score-updated", loc[p].room,
                                   loc[p].user, "none")})
    /\ Done(p, "ok")
    /\ UNCHANGED <<dbRoom, sessions, registry, ncalls>>

\* ------------------------------------------ inviteToGame (the game service)

\* gameController.inviteToGame: POST /games/sessions/:session_id/invite, the
\* invitee v in the body.
StartInviteToGame(p, u, sid, v) ==
    /\ Begin(p, "ig_sess", [NoLoc EXCEPT !.op = "inviteToGame", !.ret = "http",
                                         !.user = u, !.sess = sid,
                                         !.target = v])
    /\ UNCHANGED <<dbRoom, dbGame, registry>> /\ Quiet

\* SELECT ... FROM game_sessions gs ... WHERE gs.id = ? AND gs.status = 'active'
IG_Sess(p) ==
    /\ pc[p] = "ig_sess"
    /\ UNCHANGED <<dbRoom, dbGame, registry, ncalls>> /\ Quiet
    /\ LET ss == {x \in SessById(sessions, loc[p].sess) : x.status = "active"} IN
       IF ss = {}
       THEN Done(p, "e404")
       ELSE /\ loc' = [loc EXCEPT ![p].room = (CHOOSE x \in ss : TRUE).room_id]
            /\ Goto(p, "ig_inviter")

\* Is the inviter in the game?
IG_Inviter(p) ==
    /\ pc[p] = "ig_inviter"
    /\ UNCHANGED <<dbRoom, dbGame, registry, ncalls>> /\ Quiet
    /\ IF OpenRowsOf(gparts, loc[p].sess, loc[p].user) = {}
       THEN Done(p, "e403")
       ELSE Goto(p, "ig_part") /\ UNCHANGED loc

\* Is the invitee in the room?
IG_Part(p) ==
    /\ pc[p] = "ig_part"
    /\ UNCHANGED <<dbRoom, dbGame, registry, ncalls>> /\ Quiet
    /\ IF ActiveRows(parts, loc[p].room, loc[p].target) = {}
       THEN Done(p, "e400")
       ELSE Goto(p, "ig_gpart") /\ UNCHANGED loc

\* Is the invitee in the game already?
IG_GPart(p) ==
    /\ pc[p] = "ig_gpart"
    /\ UNCHANGED <<dbRoom, dbGame, registry, ncalls>> /\ Quiet
    /\ IF OpenRowsOf(gparts, loc[p].sess, loc[p].target) # {}
       THEN Done(p, "e400")
       ELSE Goto(p, "ig_user") /\ UNCHANGED loc

\* SELECT username FROM users WHERE id = ? (the inviter), then
\* createNotification for the invitee.
IG_User(p) ==
    /\ pc[p] = "ig_user"
    /\ Call(p, "cn_settings", "ig_notify")
    /\ UNCHANGED <<dbRoom, dbGame, registry, ncalls>> /\ Quiet

\* createNotification has returned and the invitee is sent game-invite.
MutIG_NotifyJoins(p) ==
    /\ gparts' = gparts \cup
                   {NewGameParticipant(gparts, loc[p].sess, loc[p].target)}
    /\ UNCHANGED <<dbRoom, sessions, registry, ncalls>>
    /\ emitted' = EmitToUser(loc[p].target, "game-invite", loc[p].room)
    /\ Done(p, "true")
IG_Notify(p) ==
    /\ UNCHANGED <<dbRoom, dbGame, registry, ncalls>>
    /\ emitted' = EmitToUser(loc[p].target, "game-invite", loc[p].room)
    /\ Done(p, "true")

\* createNotification throws (its INSERT fails): inviteToGame rethrows,
\* nothing is sent.
IG_NotifyFails(p) ==
    /\ pc[p] = "cn_insert"
    /\ loc[p].cont = "ig_notify"
    /\ UNCHANGED <<dbRoom, dbGame, registry, ncalls>> /\ Quiet
    /\ Done(p, "e500")

\* ------------------------------- createNotification (notificationService)

\* createNotification throws AppError('Failed to create notification', 500)
\* to the caller that loc.cont names: createJoinRequest, updateJoinRequest
\* and inviteToGame rethrow it, the socket handlers catch it.
CN_Throw(p) ==
    /\ UNCHANGED <<dbRoom, dbGame, registry, ncalls>>
    /\ CASE loc[p].cont \in {"cjr_notify", "sq_notify"} -> CJR_Throw(p, "e500")
         [] loc[p].cont \in {"ujr_notify", "sr_notify"} ->
              UJR_Throw(p, "e500") /\ Quiet
         [] loc[p].cont = "ig_notify" -> Done(p, "e500") /\ Quiet

\* The return statement of createNotification, after sendPushNotification:
\* it builds the answer from the row read back, with
\* JSON.parse(notification.data || '{}').  When that works (ok) the function
\* returns to the caller that loc.cont names, and the caller goes on in the
\* same step; when the row is missing or the driver hands the JSON column
\* over already parsed, the expression throws and the catch block turns it
\* into the 500.
CN_Return(p, ok) ==
    IF ok
    THEN CASE loc[p].cont = "cjr_notify" -> CJR_Notify(p)
           [] loc[p].cont = "sq_notify" -> SQ_Notify(p)
           [] loc[p].cont = "ujr_notify" -> UJR_Notify(p)
           [] loc[p].cont = "sr_notify" -> SR_Notify(p)
           [] loc[p].cont = "ig_notify" -> IG_Notify(p)
    ELSE CN_Throw(p)

\* SELECT * FROM notification_settings WHERE user_id = ?  When the row of
\* the recipient has the notification type switched off (off), the function
\* returns null at once, before its return statement, and the caller goes
\* on; the settings table is an input of the step.
CN_Settings(p, off) ==
    /\ pc[p] = "cn_settings"
    /\ IF off
       THEN CN_Return(p, TRUE)
       ELSE /\ Goto(p, "cn_insert")
            /\ UNCHANGED <<dbRoom, dbGame, registry, loc, ncalls>> /\ Quiet

\* INSERT INTO notifications (id, user_id, type, title, message, data)
CN_Insert(p) ==
    /\ pc[p] = "cn_insert"
    /\ Goto(p, "cn_read")
    /\ UNCHANGED <<dbRoom, dbGame, registry, loc, ncalls>> /\ Quiet

\* SELECT * FROM notifications WHERE id = ?, then sendPushNotification:
\* without Firebase (fb false: initializeFirebase has not succeeded) it
\* returns false before any statement, and createNotification comes to its
\* return statement (ok: it does not throw).
CN_Read(p, fb, ok) ==
    /\ pc[p] = "cn_read"
    /\ IF fb
       THEN /\ Goto(p, "cn_tokens")
            /\ UNCHANGED <<dbRoom, dbGame, registry, loc, ncalls>> /\ Quiet
       ELSE CN_Return(p, ok)

\* sendPushNotification: SELECT device_token, device_type FROM device_tokens
\* WHERE user_id = ?  Without a token of the recipient it returns false;
\* with one (has) the messages are sent and awaited.
CN_Tokens(p, has, ok) ==
    /\ pc[p] = "cn_tokens"
    /\ IF has
       THEN /\ Goto(p, "cn_push")
            /\ UNCHANGED <<dbRoom, dbGame, registry, loc, ncalls>> /\ Quiet
       ELSE CN_Return(p, ok)

\* await Promise.all(promises): the messages are sent, or the sending has
\* failed and the catch block returns false; createNotification comes to
\* its return statement either way.
CN_Push(p, ok) ==
    /\ pc[p] = "cn_push"
    /\ CN_Return(p, ok)

\* ------------------------------------------------------- specifications

\* The state after createRoom("a", public) by u1 has returned.
RoomOne == [id |-> 1, name |-> <<"a", "b", "c">>, type |-> "public",
            is_locked |-> FALSE, host_id |-> "u1"]

InitMember ==
    /\ rooms = {RoomOne}
    /\ parts = {NewParticipant({}, 1, "u1")}
    /\ reqs = {}
    /\ nextReq = 0
    /\ sessions = {}
    /\ gparts = {}
    /\ connectedUsers = [u \in {} |-> {}]
    /\ socketToUser = [s \in Socks |-> "none"]
    /\ sockets = [s \in Socks |-> "none"]
    /\ subs = [s \in Socks |-> {}]
    /\ io = TRUE
    /\ emitted = {}
    /\ pc = [p \in Procs |-> "idle"]
    /\ loc = [p \in Procs |-> NoLoc]
    /\ res = NoRes
    /\ ncalls = 0

\* Room membership under concurrency: joins and leaves over HTTP and over
\* the realtime channel, and disconnects, interleaved at every database step.
NextMember ==
    \E p \in Procs :
        \/ ncalls < MaxCalls /\ \E u \in Users : StartJoinRoom(p, u, 1)
        \/ ncalls < MaxCalls /\ \E u \in Users : StartLeaveRoom(p, u, 1)
        \/ ncalls < MaxCalls /\ \E s \in Socks : StartSockJoin(p, s, 1)
        \/ ncalls < MaxCalls /\ \E s \in Socks : StartSockLeave(p, s, 1)
        \/ ncalls < MaxCalls /\ \E s \in Socks : StartDisconnect(p, s)
        \/ \E s \in Socks : Connect(s, SockUser[s])
        \/ JR_Room(p)
        \/ JR_Active(p)
        \/ JR_Inactive(p)
        \/ JR_React(p)
        \/ JR_Insert(p)
        \/ LR_Active(p)
        \/ LR_Update(p)
        \/ LR_Count(p)
        \/ SJ_Can(p)
        \/ GRD_Room(p)
        \/ GRD_Parts(p)
        \/ SJ_Details(p)
        \/ DC_Rooms(p)

SpecMember == InitMember /\ [][NextMember]_vars

\* The statements a request in flight still has to run.  Node's event loop
\* resumes every handler whose awaited query has resolved, so no request in
\* flight waits forever; nothing obliges a client to send a new request.
StepMember(p) ==
    \/ JR_Room(p)
    \/ JR_Active(p)
    \/ JR_Inactive(p)
    \/ JR_React(p)
    \/ JR_Insert(p)
    \/ LR_Active(p)
    \/ LR_Update(p)
    \/ LR_Count(p)
    \/ SJ_Can(p)
    \/ GRD_Room(p)
    \/ GRD_Parts(p)
    \/ SJ_Details(p)
    \/ DC_Rooms(p)

FairMember == SpecMember /\ \A p \in Procs : WF_vars(StepMember(p))


\* Requests served one after another, from the empty database: rooms are
\* created, locked and unlocked, joined and left, join requests made and
\* answered over HTTP.
NextSerial ==
    \E p \in Procs :
        \/ /\ AllIdle /\ ncalls < MaxSerialCalls
           /\ \E u \in Users, n \in Names, t \in {"none", "bogus"} :
                 StartCreateRoom(p, u, n, t)
        \/ /\ AllIdle /\ ncalls < MaxSerialCalls
           /\ \E u \in Users, r \in RoomIds, l \in {"true", "false"} :
                 StartUpdateRoom(p, u, r, <<>>, "none", l)
        \/ /\ AllIdle /\ ncalls < MaxSerialCalls
           /\ \E u \in Users, r \in RoomIds : StartJoinRoom(p, u, r)
        \/ /\ AllIdle /\ ncalls < MaxSerialCalls
           /\ \E u \in Users, r \in RoomIds : StartLeaveRoom(p, u, r)
        \/ /\ AllIdle /\ ncalls < MaxSerialCalls
           /\ \E u \in Users, r \in RoomIds : StartCreateJoinRequest(p, u, r)
        \/ /\ AllIdle /\ ncalls < MaxSerialCalls
           /\ \E u \in Users, id \in ReqIds, a \in BOOLEAN :
                 StartRespond(p, u, id, a)
        \/ CR_Exists(p)
        \/ CR_Insert(p)
        \/ CR_Part(p)
        \/ GRD_Room(p)
        \/ GRD_Parts(p)
        \/ CR_Details(p)
        \/ UR_Room(p)
        \/ UR_Write(p)
        \/ UR_Details(p)
        \/ JR_Room(p)
        \/ JR_Req(p)
        \/ JR_Del(p)
        \/ JR_Active(p)
        \/ JR_Inactive(p)
        \/ JR_React(p)
        \/ JR_Insert(p)
        \/ LR_Active(p)
        \/ LR_Update(p)
        \/ LR_Count(p)
        \/ CJR_Room(p)
        \/ CJR_Pending(p)
        \/ CJR_Insert(p)
        \/ CJR_User(p)
        \/ \E off \in BOOLEAN : CN_Settings(p, off)
        \/ CN_Insert(p)
        \/ \E fb \in BOOLEAN, ok \in BOOLEAN : CN_Read(p, fb, ok)
        \/ \E has \in BOOLEAN, ok \in BOOLEAN : CN_Tokens(p, has, ok)
        \/ \E ok \in BOOLEAN : CN_Push(p, ok)
        \/ UJR_Read(p)
        \/ UJR_Write(p)
        \/ UJR_Room(p)

SpecSerial == Init /\ [][NextSerial]_vars


\* Hosts and their rooms under concurrency: rooms are created, joined and
\* left over HTTP and over the realtime channel, and connections drop.
NextHost ==
    \E p \in Procs :
        \/ /\ ncalls < MaxHostCalls
           /\ \E u \in Users : StartCreateRoom(p, u, <<"a", "b", "c">>, "none")
        \/ /\ ncalls < MaxHostCalls
           /\ \E u \in Users, r \in RoomIds : StartJoinRoom(p, u, r)
        \/ /\ ncalls < MaxHostCalls
           /\ \E u \in Users, r \in RoomIds : StartLeaveRoom(p, u, r)
        \/ /\ ncalls < MaxHostCalls
           /\ \E s \in Socks, r \in RoomIds : StartSockLeave(p, s, r)
        \/ /\ ncalls < MaxHostCalls
           /\ \E s \in Socks : StartDisconnect(p, s)
        \/ \E s \in Socks : Connect(s, SockUser[s])
        \/ CR_Exists(p)
        \/ CR_Insert(p)
        \/ CR_Part(p)
        \/ GRD_Room(p)
        \/ GRD_Parts(p)
        \/ CR_Details(p)
        \/ JR_Room(p)
        \/ JR_Active(p)
        \/ JR_Inactive(p)
        \/ JR_React(p)
        \/ JR_Insert(p)
        \/ LR_Active(p)
        \/ LR_Update(p)
        \/ LR_Count(p)
        \/ DC_Rooms(p)

SpecHost == Init /\ [][NextHost]_vars

\* Admission to a locked room under concurrency: room 1 of u1 is locked;
\* join requests are made over HTTP, answered over HTTP and over the
\* realtime channel, and redeemed by joinRoom.
InitRequest ==
    /\ rooms = {[RoomOne EXCEPT !.is_locked = TRUE]}
    /\ parts = {NewParticipant({}, 1, "u1")}
    /\ reqs = {}
    /\ nextReq = 0
    /\ sessions = {}
    /\ gparts = {}
    /\ connectedUsers = [u \in {} |-> {}]
    /\ socketToUser = [s \in Socks |-> "none"]
    /\ sockets = [s \in Socks |-> "none"]
    /\ subs = [s \in Socks |-> {}]
    /\ io = TRUE
    /\ emitted = {}
    /\ pc = [p \in Procs |-> "idle"]
    /\ loc = [p \in Procs |-> NoLoc]
    /\ res = NoRes
    /\ ncalls = 0

NextRequest ==
    \E p \in Procs :
        \/ /\ ncalls < MaxRequestCalls
           /\ \E u \in Users : StartCreateJoinRequest(p, u, 1)
        \/ /\ ncalls < MaxRequestCalls
           /\ \E u \in Users, id \in ReqIds, a \in BOOLEAN :
                 StartRespond(p, u, id, a)
        \/ /\ ncalls < MaxRequestCalls
           /\ \E s \in Socks, id \in ReqIds, a \in BOOLEAN :
                 StartSockRespond(p, s, id, a)
        \/ /\ ncalls < MaxRequestCalls
           /\ \E u \in Users : StartJoinRoom(p, u, 1)
        \/ \E s \in Socks : Connect(s, SockUser[s])
        \/ CJR_Room(p)
        \/ CJR_Pending(p)
        \/ CJR_Insert(p)
        \/ CJR_User(p)
        \/ \E off \in BOOLEAN : CN_Settings(p, off)
        \/ CN_Insert(p)
        \/ \E fb \in BOOLEAN, ok \in BOOLEAN : CN_Read(p, fb, ok)
        \/ \E has \in BOOLEAN, ok \in BOOLEAN : CN_Tokens(p, has, ok)
        \/ \E ok \in BOOLEAN : CN_Push(p, ok)
        \/ UJR_Read(p)
        \/ UJR_Write(p)
        \/ UJR_Room(p)
        \/ JR_Room(p)
        \/ JR_Req(p)
        \/ JR_Del(p)
        \/ JR_Active(p)
        \/ JR_Inactive(p)
        \/ JR_Insert(p)

SpecRequest == InitRequest /\ [][NextRequest]_vars

\* The realtime gateway in front of room 1 of u1, locked or not, with or
\* without an accepted join request of u2: connections join over the
\* channel (also a room that does not exist), leave over HTTP and over the
\* channel, and disconnect.
InitGate ==
    /\ \E l \in BOOLEAN : rooms = {[RoomOne EXCEPT !.is_locked = l]}
    /\ parts = {NewParticipant({}, 1, "u1")}
    /\ \E n \in {0, 1} :
          /\ nextReq = n
          /\ reqs = {[id |-> i, room_id |-> 1, user_id |-> "u2",
                      status |-> "accepted"] : i \in 1..n}
    /\ sessions = {}
    /\ gparts = {}
    /\ connectedUsers = [u \in {} |-> {}]
    /\ socketToUser = [s \in Socks |-> "none"]
    /\ sockets = [s \in Socks |-> "none"]
    /\ subs = [s \in Socks |-> {}]
    /\ io = TRUE
    /\ emitted = {}
    /\ pc = [p \in Procs |-> "idle"]
    /\ loc = [p \in Procs |-> NoLoc]
    /\ res = NoRes
    /\ ncalls = 0

NextGate ==
    \E p \in Procs :
        \/ /\ ncalls < MaxGateCalls
           /\ \E s \in Socks, r \in RoomIds : StartSockJoin(p, s, r)
        \/ ncalls < MaxGateCalls /\ \E s \in Socks : StartSockLeave(p, s, 1)
        \/ ncalls < MaxGateCalls /\ \E u \in Users : StartLeaveRoom(p, u, 1)
        \/ ncalls < MaxGateCalls /\ \E s \in Socks : StartDisconnect(p, s)
        \/ \E s \in Socks : Connect(s, SockUser[s])
        \/ SJ_Can(p)
        \/ SJ_CanReq(p)
        \/ GRD_Room(p)
        \/ GRD_Parts(p)
        \/ SJ_Details(p)
        \/ JR_Room(p)
        \/ JR_Req(p)
        \/ JR_Del(p)
        \/ JR_Active(p)
        \/ JR_Inactive(p)
        \/ JR_React(p)
        \/ JR_Insert(p)
        \/ LR_Active(p)
        \/ LR_Update(p)
        \/ LR_Count(p)
        \/ DC_Rooms(p)

SpecGate == InitGate /\ [][NextGate]_vars

\* The connection registry: any user connects from any device, connections
\* close, and services send direct events with emitToUser.
InitRegistry ==
    /\ rooms = {}
    /\ parts = {}
    /\ reqs = {}
    /\ nextReq = 0
    /\ sessions = {}
    /\ gparts = {}
    /\ connectedUsers = [u \in {} |-> {}]
    /\ socketToUser = [s \in Devices |-> "none"]
    /\ sockets = [s \in Devices |-> "none"]
    /\ subs = [s \in Devices |-> {}]
    /\ io = TRUE
    /\ emitted = {}
    /\ pc = [p \in Procs |-> "idle"]
    /\ loc = [p \in Procs |-> NoLoc]
    /\ res = NoRes
    /\ ncalls = 0

NextRegistry ==
    \/ \E s \in Devices, u \in Users : Connect(s, u)
    \/ \E u \in Users : CallEmitToUser(u)
    \/ \E p \in Procs :
          \/ /\ ncalls < MaxRegistryCalls
             /\ \E s \in Devices : StartDisconnect(p, s)
          \/ DC_Rooms(p)

SpecRegistry == InitRegistry /\ [][NextRegistry]_vars

\* Join requests to the locked room 1 of u1, made and answered over HTTP,
\* with a notification service that may fail.
NextNotify ==
    \E p \in Procs :
        \/ /\ ncalls < MaxNotifyCalls
           /\ \E u \in Users : StartCreateJoinRequest(p, u, 1)
        \/ /\ ncalls < MaxNotifyCalls
           /\ \E u \in Users, id \in ReqIds, a \in BOOLEAN :
                 StartRespond(p, u, id, a)
        \/ /\ ncalls < MaxNotifyCalls
           /\ \E s \in Socks : StartSockRequest(p, s, 1)
        \/ \E s \in Socks : Connect(s, SockUser[s])
        \/ CJR_Room(p)
        \/ CJR_Pending(p)
        \/ CJR_Insert(p)
        \/ CJR_User(p)
        \/ \E off \in BOOLEAN : CN_Settings(p, off)
        \/ CN_Insert(p)
        \/ \E fb \in BOOLEAN, ok \in BOOLEAN : CN_Read(p, fb, ok)
        \/ \E has \in BOOLEAN, ok \in BOOLEAN : CN_Tokens(p, has, ok)
        \/ \E ok \in BOOLEAN : CN_Push(p, ok)
        \/ CJR_NotifyFails(p)
        \/ GRD_Room(p)
        \/ GRD_Parts(p)
        \/ SQ_Host(p)
        \/ UJR_Read(p)
        \/ UJR_Write(p)
        \/ UJR_Room(p)
        \/ UJR_NotifyFails(p)

SpecNotify == InitRequest /\ [][NextNotify]_vars

\* Patches to the rooms of u1: room 1 "abcd" with u2 in it, and the locked
\* room 2 "xyz" with a pending join request of u2; any user sends any patch
\* to either room, two at a time.
InitPatch ==
    /\ rooms = {[id |-> 1, name |-> <<"a", "b", "c", "d">>, type |-> "public",
                 is_locked |-> FALSE, host_id |-> "u1"],
                [id |-> 2, name |-> <<"x", "y", "z">>, type |-> "private",
                 is_locked |-> TRUE, host_id |-> "u1"]}
    /\ parts = {[id |-> 1, room_id |-> 1, user_id |-> "u1", is_active |-> TRUE],
                [id |-> 2, room_id |-> 2, user_id |-> "u1", is_active |-> TRUE],
                [id |-> 3, room_id |-> 1, user_id |-> "u2", is_active |-> TRUE]}
    /\ reqs = {[id |-> 1, room_id |-> 2, user_id |-> "u2", status |-> "pending"]}
    /\ nextReq = 1
    /\ sessions = {}
    /\ gparts = {}
    /\ connectedUsers = [u \in {} |-> {}]
    /\ socketToUser = [s \in Socks |-> "none"]
    /\ sockets = [s \in Socks |-> "none"]
    /\ subs = [s \in Socks |-> {}]
    /\ io = TRUE
    /\ emitted = {}
    /\ pc = [p \in Procs |-> "idle"]
    /\ loc = [p \in Procs |-> NoLoc]
    /\ res = NoRes
    /\ ncalls = 0

NextPatch ==
    \E p \in Procs :
        \/ /\ ncalls < MaxPatchCalls
           /\ \E u \in Users, r \in RoomIds, n \in PatchNames,
                 t \in TypeInputs, l \in {"none", "true", "false"} :
                 StartUpdateRoom(p, u, r, n, t, l)
        \/ UR_Room(p)
        \/ UR_Name(p)
        \/ UR_Write(p)
        \/ GRD_Room(p)
        \/ GRD_Parts(p)
        \/ UR_Details(p)

SpecPatch == InitPatch /\ [][NextPatch]_vars

\* Game sessions under concurrency: room 1 of u1 with every user in it.
InitGame ==
    /\ rooms = {RoomOne}
    /\ parts = {[id |-> 1, room_id |-> 1, user_id |-> "u1", is_active |-> TRUE],
                [id |-> 2, room_id |-> 1, user_id |-> "u2", is_active |-> TRUE],
                [id |-> 3, room_id |-> 1, user_id |-> "u3", is_active |-> TRUE]}
    /\ reqs = {}
    /\ nextReq = 0
    /\ sessions = {}
    /\ gparts = {}
    /\ connectedUsers = [u \in {} |-> {}]
    /\ socketToUser = [s \in Socks |-> "none"]
    /\ sockets = [s \in Socks |-> "none"]
    /\ subs = [s \in Socks |-> {}]
    /\ io = TRUE
    /\ emitted = {}
    /\ pc = [p \in Procs |-> "idle"]
    /\ loc = [p \in Procs |-> NoLoc]
    /\ res = NoRes
    /\ ncalls = 0

NextGame ==
    \E p \in Procs :
        \/ /\ ncalls < MaxGameCalls
           /\ \E u \in GameUsers, g \in GameIds : StartCreateGameSession(p, u, g, 1)
        \/ /\ ncalls < MaxGameCalls
           /\ \E u \in GameUsers, sid \in SessIds : StartJoinGameSession(p, u, sid)
        \/ /\ ncalls < MaxGameCalls
           /\ \E u \in GameUsers, sid \in SessIds : StartLeaveGameSession(p, u, sid)
        \/ /\ ncalls < MaxGameCalls
           /\ \E u \in GameUsers, sid \in SessIds : StartEndGameSession(p, u, sid)
        \/ /\ ncalls < MaxGameCalls
           /\ \E u \in GameUsers, sid \in SessIds, d \in Scores :
                 StartUpdatePlayerScore(p, u, sid, d)
        \/ CG_Game(p)
        \/ CG_Room(p)
        \/ CG_Part(p)
        \/ CG_Active(p)
        \/ CG_Insert(p)
        \/ \E ok \in BOOLEAN : CG_GPart(p, ok)
        \/ GGS_Sess(p)
        \/ CG_Details(p)
        \/ JG_Sess(p)
        \/ JG_Part(p)
        \/ JG_GPart(p)
        \/ JG_Count(p)
        \/ JG_Insert(p)
        \/ JG_Emit(p)
        \/ JG_Details(p)
        \/ LG_Sess(p)
        \/ LG_GPart(p)
        \/ LG_Update(p)
        \/ LG_Count(p)
        \/ LG_End(p)
        \/ EG_Sess(p)
        \/ EG_End(p)
        \/ EG_Parts(p)
        \/ US_Sess(p)
        \/ US_GPart(p)
        \/ US_Write(p)

SpecGame == InitGame /\ [][NextGame]_vars

\* Game sessions with the requests served one after another: room 1 of u1
\* with every user in it; users start, join, leave and end sessions, invite
\* each other, score, and leave the room.
NextPlay ==
    \E p \in Procs :
        \/ /\ AllIdle /\ ncalls < MaxPlayCalls
           /\ \E u \in GameUsers, g \in GameIds : StartCreateGameSession(p, u, g, 1)
        \/ /\ AllIdle /\ ncalls < MaxPlayCalls
           /\ \E u \in GameUsers, sid \in SessIds : StartJoinGameSession(p, u, sid)
        \/ /\ AllIdle /\ ncalls < MaxPlayCalls
           /\ \E u \in GameUsers, sid \in SessIds : StartLeaveGameSession(p, u, sid)
        \/ /\ AllIdle /\ ncalls < MaxPlayCalls
           /\ \E u \in GameUsers, sid \in SessIds : StartEndGameSession(p, u, sid)
        \/ /\ AllIdle /\ ncalls < MaxPlayCalls
           /\ \E u \in GameUsers, v \in GameUsers, sid \in SessIds :
                 StartInviteToGame(p, u, sid, v)
        \/ /\ AllIdle /\ ncalls < MaxPlayCalls
           /\ \E u \in GameUsers : StartLeaveRoom(p, u, 1)
        \/ CG_Game(p)
        \/ CG_Room(p)
        \/ CG_Part(p)
        \/ CG_Active(p)
        \/ CG_Insert(p)
        \/ \E ok \in BOOLEAN : CG_GPart(p, ok)
        \/ GGS_Sess(p)
        \/ CG_Details(p)
        \/ JG_Sess(p)
        \/ JG_Part(p)
        \/ JG_GPart(p)
        \/ JG_Count(p)
        \/ JG_Insert(p)
        \/ JG_Emit(p)
        \/ JG_Details(p)
        \/ LG_Sess(p)
        \/ LG_GPart(p)
        \/ LG_Update(p)
        \/ LG_Count(p)
        \/ LG_End(p)
        \/ EG_Sess(p)
        \/ EG_End(p)
        \/ EG_Parts(p)
        \/ IG_Sess(p)
        \/ IG_Inviter(p)
        \/ IG_Part(p)
        \/ IG_GPart(p)
        \/ IG_User(p)
        \/ \E off \in BOOLEAN : CN_Settings(p, off)
        \/ CN_Insert(p)
        \/ \E fb \in BOOLEAN, ok \in BOOLEAN : CN_Read(p, fb, ok)
        \/ \E has \in BOOLEAN, ok \in BOOLEAN : CN_Tokens(p, has, ok)
        \/ \E ok \in BOOLEAN : CN_Push(p, ok)
        \/ IG_NotifyFails(p)
        \/ LR_Active(p)
        \/ LR_Update(p)
        \/ LR_Count(p)

SpecPlay == InitGame /\ [][NextPlay]_vars

\* Broadcasts with and without a socket server: room 1 of u1 with every user
\* in it and the game session u1 has created there; the services run in a
\* process where initializeSocket has been called, or has not.
InitBroadcast ==
    /\ rooms = {RoomOne}
    /\ parts = {[id |-> 1, room_id |-> 1, user_id |-> "u1", is_active |-> TRUE],
                [id |-> 2, room_id |-> 1, user_id |-> "u2", is_active |-> TRUE],
                [id |-> 3, room_id |-> 1, user_id |-> "u3", is_active |-> TRUE]}
    /\ reqs = {}
    /\ nextReq = 0
    /\ sessions = {[id |-> 1, game_id |-> "g1", room_id |-> 1,
                    status |-> "active", created_by |-> "u1"]}
    /\ gparts = {NewGameParticipant({}, 1, "u1")}
    /\ connectedUsers = [u \in {} |-> {}]
    /\ socketToUser = [s \in Socks |-> "none"]
    /\ sockets = [s \in Socks |-> "none"]
    /\ subs = [s \in Socks |-> {}]
    /\ io \in BOOLEAN
    /\ emitted = {}
    /\ pc = [p \in Procs |-> "idle"]
    /\ loc = [p \in Procs |-> NoLoc]
    /\ res = NoRes
    /\ ncalls = 0

NextBroadcast ==
    \E p \in Procs :
        \/ /\ ncalls < MaxBroadcastCalls
           /\ \E u \in Users, l \in {"true", "false"} :
                 StartUpdateRoom(p, u, 1, <<>>, "none", l)
        \/ /\ ncalls < MaxBroadcastCalls
           /\ \E u \in GameUsers : StartJoinGameSession(p, u, 1)
        \/ /\ ncalls < MaxBroadcastCalls
           /\ \E u \in GameUsers : StartLeaveGameSession(p, u, 1)
        \/ /\ ncalls < MaxBroadcastCalls
           /\ \E u \in GameUsers : StartEndGameSession(p, u, 1)
        \/ /\ ncalls < MaxBroadcastCalls
           /\ \E u \in GameUsers, d \in Scores :
                 StartUpdatePlayerScore(p, u, 1, d)
        \/ UR_Room(p)
        \/ UR_Write(p)
        \/ GRD_Room(p)
        \/ GRD_Parts(p)
        \/ UR_Details(p)
        \/ JG_Sess(p)
        \/ JG_Part(p)
        \/ JG_GPart(p)
        \/ JG_Count(p)
        \/ JG_Insert(p)
        \/ JG_Emit(p)
        \/ GGS_Sess(p)
        \/ JG_Details(p)
        \/ LG_Sess(p)
        \/ LG_GPart(p)
        \/ LG_Update(p)
        \/ LG_Count(p)
        \/ LG_End(p)
        \/ EG_Sess(p)
        \/ EG_End(p)
        \/ EG_Parts(p)
        \/ US_Sess(p)
        \/ US_GPart(p)
        \/ US_Write(p)

SpecBroadcast == InitBroadcast /\ [][NextBroadcast]_vars

\* ------------------------------------------------------------- properties

\* C1 (SpecMember): in every reachable state, whatever the interleaving of
\* the database steps of concurrent joinRoom and leaveRoom calls (HTTP or
\* socket) on a room, at most one room_participants row of a (room, user)
\* pair has is_active = TRUE.
AtMostOneActiveRow ==
    \A x \in parts : \A y \in parts :
        (x.room_id = y.room_id /\ x.user_id = y.user_id
         /\ x.is_active /\ y.is_active) => x.id = y.id

\* Two joinRoom calls of one user raced and the unique key turned the
\* second write down.
DuplicateJoinRejected ==
    /\ res.op = "joinRoom" /\ res.out = "e500"
    /\ res.at \in {"jr_insert", "jr_react"}
    /\ \E x \in parts : x.room_id = res.room /\ x.user_id = res.user /\ x.is_active

\* C2 (SpecSerial): joinRoom(U,R) on a locked room R.  Without an accepted
\* join request of U for R it fails with 403 and writes neither
\* room_participants nor room_join_requests; with one it goes on, returns
\* successfully, U is then an active participant and the request row it
\* picked (an accepted request of U for R) is deleted.
LockedJoinRoom ==
    [][\A p \in Procs :
         (/\ loc[p].op = "joinRoom"
          /\ \E x \in rooms : x.id = loc[p].room /\ x.is_locked)
         =>
         LET acc == {x \in reqs : /\ x.room_id = loc[p].room
                                  /\ x.user_id = loc[p].user
                                  /\ x.status = "accepted"}
         IN
         /\ (pc[p] = "jr_room" /\ pc'[p] # "jr_room" =>
               pc'[p] = "jr_req" /\ parts' = parts /\ reqs' = reqs)
         /\ (pc[p] = "jr_req" /\ pc'[p] # "jr_req" /\ acc = {} =>
               /\ pc'[p] = "idle" /\ res'.out = "e403"
               /\ parts' = parts /\ reqs' = reqs)
         /\ (pc[p] = "jr_req" /\ pc'[p] # "jr_req" /\ acc # {} =>
               /\ pc'[p] = "jr_del"
               /\ loc'[p].req \in {x.id : x \in acc})
         /\ (pc[p] \notin {"idle", "jr_room", "jr_req"} /\ pc'[p] = "idle" =>
               /\ res'.out = "ok"
               /\ \E x \in parts' : /\ x.room_id = loc[p].room
                                    /\ x.user_id = loc[p].user
                                    /\ x.is_active
               /\ \A x \in reqs' : x.id # loc[p].req)
      ]_vars

\* A user who is not the host has just joined a locked room, and no accepted
\* request of theirs is left.
JoinedLockedRoom ==
    /\ res.op = "joinRoom" /\ res.out = "ok"
    /\ \E x \in rooms : x.id = res.room /\ x.is_locked /\ x.host_id # res.user
    /\ \E x \in parts : x.room_id = res.room /\ x.user_id = res.user /\ x.is_active
    /\ nextReq > 0
    /\ ~\E x \in reqs : /\ x.room_id = res.room /\ x.user_id = res.user
                        /\ x.status = "accepted"

\* C3 (SpecSerial): only the host of the room admits a user to a locked
\* room: a join request moves from pending to accepted only by a step of a
\* request made by the host of the request's room; no other user, the
\* requester included, can accept it.
OnlyHostAccepts ==
    [][\A x \in reqs : \A y \in reqs' :
         (x.id = y.id /\ x.status = "pending" /\ y.status = "accepted")
         =>
         \E p \in Procs :
             /\ pc[p] = "ujr_write"
             /\ pc'[p] # "ujr_write"
             /\ \E rm \in rooms : rm.id = x.room_id /\ rm.host_id = loc[p].user
      ]_vars

\* C4 (SpecGame): the open (left_at NULL) game_participants rows of a session
\* never outnumber the max_players of its game, whatever the interleaving of
\* concurrent joinGameSession calls.
CapacityRespected ==
    \A x \in sessions :
        Cardinality({y \in gparts : y.game_session_id = x.id /\ ~y.left})
            <= (CHOOSE g \in Games : g.id = x.game_id).max_players

\* C5 (SpecGame): at most one game_sessions row with status active for a
\* (room, game) pair, whatever the interleaving of concurrent
\* createGameSession calls.
OneActiveSession ==
    \A x \in sessions : \A y \in sessions :
        (x.room_id = y.room_id /\ x.game_id = y.game_id
         /\ x.status = "active" /\ y.status = "active") => x.id = y.id

\* C6 (SpecGame): scores are additive: every updatePlayerScore that succeeds
\* moves the stored score of its participant by exactly its delta, so that
\* after several of them, in any interleaving, the score is the initial one
\* plus the sum of the deltas.
ScoreAdditive ==
    [][\A p \in Procs :
         (pc[p] = "us_write" /\ pc'[p] = "idle") =>
         \A x \in gparts : \A y \in gparts' :
             (x.id = loc[p].row /\ y.id = x.id) =>
                 y.score = x.score + loc[p].delta
      ]_vars

\* C7 (SpecMember): the disconnect handler leaves every room of its snapshot:
\* its leaveRoom update leaves the user without an active row in the room,
\* and when the handler finishes a user-left with reason disconnected has
\* been sent for the snapshot's room.
DisconnectLeavesRooms ==
    [][\A p \in Procs :
         loc[p].op = "disconnect" =>
         /\ (pc[p] = "lr_update" /\ pc'[p] # "lr_update" =>
               ~\E x \in parts' : /\ x.room_id = loc[p].room
                                  /\ x.user_id = loc[p].user
                                  /\ x.is_active)
         /\ (pc[p] # "idle" /\ pc'[p] = "idle" =>
               \A r \in loc[p].snap :
                   [ev |-> "user-left", room |-> r, user |-> loc[p].user,
                    reason |-> "disconnected"] \in emitted')
      ]_vars

\* C8 as stated (SpecHost): once createRoom is through, the host of a room
\* holds an active row in it, whatever is left or disconnected.
HostAlwaysActive ==
    \A rm \in rooms :
        (\A p \in Procs : ~(loc[p].op = "createRoom" /\ loc[p].room = rm.id))
        =>
        \E x \in parts : x.room_id = rm.id /\ x.user_id = rm.host_id /\ x.is_active

\* C8 (SpecHost): createRoom's participant insert makes the host an active
\* participant of the new room, and afterwards the host turns inactive in it
\* only by a step of the host's own leaveRoom call, leave-room event or
\* disconnect: nothing another user does makes the host inactive.
HostLeavesOnlyByOwnAct ==
    [][/\ \A p \in Procs :
            (pc[p] = "cr_part" /\ pc'[p] # "cr_part") =>
                \E x \in parts' : /\ x.room_id = loc[p].room
                                  /\ x.user_id = loc[p].user
                                  /\ x.is_active
       /\ \A rm \in rooms :
            (/\ \E x \in parts : /\ x.room_id = rm.id
                                 /\ x.user_id = rm.host_id /\ x.is_active
             /\ ~\E x \in parts' : /\ x.room_id = rm.id
                                   /\ x.user_id = rm.host_id /\ x.is_active)
            =>
            \E p \in Procs :
                /\ pc[p] = "lr_update"
                /\ pc'[p] # "lr_update"
                /\ loc[p].user = rm.host_id
                /\ loc[p].room = rm.id
                /\ loc[p].op \in {"leaveRoom", "leave-room", "disconnect"}
      ]_vars

\* The host has left their own room, in which another user stays.
HostLeftOwnRoom ==
    /\ res.op \in {"leaveRoom", "leave-room", "disconnect"}
    /\ res.out \in {"true", "ok"}
    /\ \E rm \in rooms :
          /\ rm.id = res.room /\ rm.host_id = res.user
          /\ \E x \in parts : /\ x.room_id = rm.id /\ x.user_id = rm.host_id
                              /\ ~x.is_active
          /\ \E x \in parts : /\ x.room_id = rm.id /\ x.user_id # rm.host_id
                              /\ x.is_active

\* C9 (SpecSerial): joinRoom is idempotent on an unlocked room: a call that
\* returns successfully leaves U listed exactly once by getRoomDetails, and a
\* call made when U is already active changes nothing of what getRoomDetails
\* returns (participants and participants_count).
JoinRoomIdempotent ==
    [][\A p \in Procs :
         (/\ loc[p].op = "joinRoom"
          /\ \E x \in rooms : x.id = loc[p].room /\ ~x.is_locked)
         =>
         /\ ((\E x \in parts : /\ x.room_id = loc[p].room
                               /\ x.user_id = loc[p].user /\ x.is_active)
             => GetRoomDetails(rooms', parts', loc[p].room)
                  = GetRoomDetails(rooms, parts, loc[p].room))
         /\ (pc[p] # "idle" /\ pc'[p] = "idle" /\ res'.out = "ok" =>
               Cardinality({x \in GetRoomDetails(rooms', parts',
                                                 loc[p].room).participants :
                               x.user_id = loc[p].user}) = 1)
      ]_vars

\* A user who is not the host called joinRoom on an unlocked room they were
\* already in, and it returned successfully from the already-active branch.
RepeatedJoinReturned ==
    /\ res.op = "joinRoom" /\ res.out = "ok" /\ res.at = "jr_active"
    /\ \E x \in rooms : x.id = res.room /\ ~x.is_locked /\ x.host_id # res.user
    /\ GetRoomDetails(rooms, parts, res.room).participants_count = 2

\* C10 (SpecSerial): with leaveRoom and joinRoom calls made one after
\* another, a (room, user) pair never has two rows; after a successful
\* joinRoom it has exactly one, active; after a leaveRoom that returned true
\* exactly one, inactive; after one that returned false none that is active.
OneRowAlternating ==
    /\ \A r \in RoomIds : \A u \in Users :
          Cardinality({x \in parts : x.room_id = r /\ x.user_id = u}) <= 1
    /\ (res.op = "joinRoom" /\ res.out = "ok") =>
          /\ Cardinality({x \in parts : x.room_id = res.room
                                        /\ x.user_id = res.user}) = 1
          /\ \A x \in parts :
                (x.room_id = res.room /\ x.user_id = res.user) => x.is_active
    /\ (res.op = "leaveRoom" /\ res.out = "true") =>
          /\ Cardinality({x \in parts : x.room_id = res.room
                                        /\ x.user_id = res.user}) = 1
          /\ \A x \in parts :
                (x.room_id = res.room /\ x.user_id = res.user) => ~x.is_active
    /\ (res.op = "leaveRoom" /\ res.out = "false") =>
          \A x \in parts :
                (x.room_id = res.room /\ x.user_id = res.user) => ~x.is_active

\* A user who had left a room joined it again: joinRoom returned from the
\* branch that reactivates the inactive row.
RejoinReactivated ==
    /\ res.op = "joinRoom" /\ res.out = "ok" /\ res.at = "jr_react"
    /\ Cardinality({x \in parts : x.room_id = res.room
                                  /\ x.user_id = res.user /\ x.is_active}) = 1

\* C14 (SpecGame): a session is never left active with nobody in it: when
\* no request is at work on a session, an active session has at least one
\* open game_participants row; so when its only open participant has left
\* it and the call has returned, the session is completed.
NoEmptyActiveSession ==
    \A x \in sessions :
        (/\ x.status = "active"
         /\ \A p \in Procs : loc[p].sess # x.id)
        => \E y \in gparts : y.game_session_id = x.id /\ ~y.left

\* C15 (SpecGame): terminal session states are final: the status of a
\* completed or cancelled session is never changed again by any step of any
\* game operation, and an endGameSession that reads such a session is
\* turned down ('already ended', 400) without writing.
TerminalStatusFinal ==
    [][/\ \A x \in sessions : \A y \in sessions' :
            (x.id = y.id /\ x.status \in {"completed", "cancelled"})
            => y.status = x.status
       /\ \A p \in Procs :
            (/\ pc[p] = "eg_sess" /\ pc'[p] # "eg_sess"
             /\ \E x \in sessions : /\ x.id = loc[p].sess
                                    /\ x.status \in {"completed", "cancelled"})
            => /\ pc'[p] = "idle" /\ res'.out = "e400"
               /\ sessions' = sessions /\ gparts' = gparts
      ]_vars

\* endGameSession was turned down on a session that is completed.
EndOfEndedRejected ==
    /\ res.op = "endGameSession" /\ res.out = "e400"
    /\ \E x \in sessions : x.status = "completed"
    /\ ~\E x \in sessions : x.status = "active"

\* C16 (SpecGame): endGameSession on an active session by a user who is
\* neither its creator nor the host of its room fails with 403 and leaves
\* the session's status and every game_participants row as they were.
EndNeedsCreatorOrHost ==
    [][\A p \in Procs :
         (/\ pc[p] = "eg_sess" /\ pc'[p] # "eg_sess"
          /\ \E x \in sessions :
                /\ x.id = loc[p].sess /\ x.status = "active"
                /\ x.created_by # loc[p].user
                /\ \A rm \in rooms : rm.id = x.room_id => rm.host_id # loc[p].user)
         => /\ pc'[p] = "idle" /\ res'.out = "e403"
            /\ sessions' = sessions /\ gparts' = gparts
      ]_vars

\* A user who may not end the session was turned down; it is still active,
\* with its participants in it.
EndByOutsiderRejected ==
    /\ res.op = "endGameSession" /\ res.out = "e403"
    /\ \E x \in sessions :
          /\ x.status = "active" /\ x.created_by # res.user
          /\ \E y \in gparts : y.game_session_id = x.id /\ ~y.left

\* C17 (SpecGame): when endGameSession returns successfully, the session is
\* completed and none of its game_participants rows is open, however many
\* were.
EndClosesEveryone ==
    [][\A p \in Procs :
         (/\ loc[p].op = "endGameSession"
          /\ pc[p] # "idle" /\ pc'[p] = "idle" /\ res'.out = "true")
         => /\ \E x \in sessions' : x.id = loc[p].sess /\ x.status = "completed"
            /\ \A y \in gparts' : y.game_session_id = loc[p].sess => y.left
      ]_vars

\* A session with two participants was ended.
EndedWithTwoPlayers ==
    /\ res.op = "endGameSession" /\ res.out = "true"
    /\ \E x \in sessions :
          /\ x.status = "completed"
          /\ Cardinality({y \in gparts : y.game_session_id = x.id /\ y.left}) >= 2
          /\ \A y \in gparts : y.game_session_id = x.id => y.left

\* C18 (SpecGame): a score is written only to an open row of an active
\* session: no write of updatePlayerScore lands after the participant was
\* marked left or the session completed.
ScoreOnlyWhilePlaying ==
    [][\A p \in Procs :
         (pc[p] = "us_write" /\ pc'[p] # "us_write")
         => /\ \E y \in gparts : y.id = loc[p].row /\ ~y.left
            /\ \E x \in sessions : x.id = loc[p].sess /\ x.status = "active"
      ]_vars

\* C19 (SpecHost): createRoom is all-or-nothing: in no reachable state is
\* there a rooms row without an active room_participants row of its host.
NoRoomWithoutHostRow ==
    \A rm \in rooms :
        \E x \in parts : x.room_id = rm.id /\ x.user_id = rm.host_id /\ x.is_active

\* C20 (SpecHost): no two rooms share a (host, name) pair, whatever the
\* interleaving of the createRoom calls of a host.
UniqueHostName ==
    \A x \in rooms : \A y \in rooms :
        (x.host_id = y.host_id /\ x.name = y.name) => x.id = y.id

\* C11 (SpecRequest): at most one room_join_requests row with status
\* pending for a (room, user) pair, whatever the interleaving of concurrent
\* createJoinRequest calls (HTTP or request-room-join).
OnePendingRequest ==
    \A x \in reqs : \A y \in reqs :
        (x.room_id = y.room_id /\ x.user_id = y.user_id
         /\ x.status = "pending" /\ y.status = "pending") => x.id = y.id

\* C12 (SpecRequest): a join request is resolved at most once: a request
\* whose status is accepted or rejected keeps that status for as long as the
\* row exists, whatever updateJoinRequest runs later or at the same time.
ResolvedOnce ==
    [][\A x \in reqs : \A y \in reqs' :
         (x.id = y.id /\ x.status \in {"accepted", "rejected"})
         => y.status = x.status
      ]_vars

\* C13 (SpecSerial): an accepted join request is redeemed by exactly one
\* join: right after a successful joinRoom(U,R) no accepted request of U for
\* R is left.
NoAcceptedAfterJoin ==
    (res.op = "joinRoom" /\ res.out = "ok") =>
        ~\E x \in reqs : /\ x.room_id = res.room /\ x.user_id = res.user
                         /\ x.status = "accepted"

\* C21: canUserJoinRoom changes no stored row, and answers true exactly
\* when the room exists and the user is its host, or the room is not locked,
\* or an accepted join request of the user for the room exists; it answers
\* false for a room that does not exist.  The first query settles the
\* missing room, the host and the unlocked room; the second the request.
CanJoinIsPureAndExact ==
    [][\A p \in Procs :
         (pc[p] \in {"sj_can", "sj_canreq"} /\ pc'[p] # pc[p]) =>
           LET u == loc[p].user
               r == loc[p].room
               rm == {x \in rooms : x.id = r}
               open == \E x \in rm : x.host_id = u \/ ~x.is_locked
               acc == \E x \in reqs : /\ x.room_id = r /\ x.user_id = u
                                       /\ x.status = "accepted"
               true == pc'[p] = "jr_room"
               false == pc'[p] = "idle" /\ res'.out = "room-join-error"
           IN /\ UNCHANGED <<rooms, parts, reqs, nextReq, sessions, gparts>>
              /\ pc[p] = "sj_can" =>
                    /\ true <=> open
                    /\ false <=> rm = {}
                    /\ (~true /\ ~false) => pc'[p] = "sj_canreq"
              /\ pc[p] = "sj_canreq" =>
                    /\ true <=> acc
                    /\ false <=> ~acc]_vars

\* A locked room has let in a user who is not its host, on the strength of
\* an accepted join request.
AdmittedByRequest ==
    \E p \in Procs :
        /\ pc[p] = "jr_room" /\ loc[p].op = "join-room"
        /\ loc[p].user = "u2" /\ loc[p].room = 1
        /\ \E x \in rooms : x.id = 1 /\ x.is_locked /\ x.host_id # "u2"
        /\ loc[p].sock \in Socks
        /\ loc[p].room \in subs[loc[p].sock]

\* C22: when the join-room handler has finished, a connection of its user
\* that is subscribed to the room's channel belongs to a user with an active
\* participant row in the room, and is not subscribed when the join was
\* refused.
SubscribedOnlyIfJoined ==
    res.op = "join-room" =>
      \A s \in Socks :
         (socketToUser[s] = res.user /\ res.room \in subs[s]) =>
           /\ res.out = "ok"
           /\ \E x \in parts : /\ x.room_id = res.room
                               /\ x.user_id = res.user /\ x.is_active

\* C29: a user-joined event for a user and a room is emitted only once
\* joinRoom has succeeded for them, so that the user then holds an active
\* participant row in the room.
AnnouncedOnlyAfterJoin ==
    \A e \in emitted :
       e.ev = "user-joined" =>
         \E x \in parts : /\ x.room_id = e.room /\ x.user_id = e.user
                          /\ x.is_active

\* C23: emitToUser sends the event to every connection the user has open
\* and to no connection of anybody else, and returns true exactly when the
\* user has at least one open connection (false, and nothing sent,
\* otherwise).
EmitToUserReachesOwnSockets ==
    res.op = "emitToUser" =>
      LET open == {s \in Devices : sockets[s] = res.user} IN
      /\ {e.to : e \in emitted} = open
      /\ \A e \in emitted : e.user = res.user /\ sockets[e.to] = res.user
      /\ res.out = "true" <=> open # {}
      /\ res.out = "false" <=> emitted = {}

\* A direct event has gone to both devices of a user while the other user
\* was connected too.
EmittedToTwoDevices ==
    /\ res.op = "emitToUser" /\ res.out = "true"
    /\ Cardinality(emitted) = 2
    /\ \E s \in Devices : sockets[s] \notin {"none", res.user}

\* C24: after any sequence of connects and disconnects, a connection id is
\* in connectedUsers[u] exactly when socketToUser maps it to u,
\* connectedUsers holds no empty set, and isUserOnline(u) is true exactly
\* when u has a connection that is open.
RegistryConsistent ==
    /\ \A u \in Users, s \in Devices :
          (u \in DOMAIN connectedUsers /\ s \in connectedUsers[u])
            <=> socketToUser[s] = u
    /\ \A u \in DOMAIN connectedUsers : connectedUsers[u] # {}
    /\ \A u \in Users :
          (u \in DOMAIN connectedUsers /\ Cardinality(connectedUsers[u]) > 0)
            <=> \E s \in Devices : sockets[s] = u

\* One of two devices of a user has disconnected, and the user is still
\* online through the other while somebody else has gone offline.
OneDeviceLeft ==
    /\ res.op = "disconnect"
    /\ Cardinality({s \in Devices : sockets[s] = res.user}) = 1
    /\ res.user \in DOMAIN connectedUsers
    /\ ncalls >= 2
    /\ \E v \in Users : v # res.user /\ v \notin DOMAIN connectedUsers

\* C25: a failing notification does not fail the operation: a join request
\* operation that has made its write and reached the notification of the
\* other party (any statement of createNotification, or the return from it)
\* returns its normal success result.
NotificationNeverEscalates ==
    res.at \in {"cn_settings", "cn_insert", "cn_read", "cn_tokens",
                "cn_push"}
      => res.out \in {"ok", "accepted"}

\* C26: a broadcast that fails neither fails nor undoes the mutation: the
\* step of updateRoom, joinGameSession, leaveGameSession, endGameSession or
\* updatePlayerScore that broadcasts goes on to the operation's success
\* result (for the first two, to reading the view they return) and leaves
\* the rows it has written, whether the socket server is there or getIO
\* throws.
BroadcastFailureIsHarmless ==
    [][\A p \in Procs :
         (pc'[p] # pc[p]) =>
           LET u == loc[p].user IN
           /\ pc[p] = "ur_write" =>
                /\ pc'[p] = "grd_room" /\ loc'[p].cont = "ur_details"
                /\ \A x \in rooms' :
                      x.id = loc[p].room =>
                        x.is_locked = (loc[p].lock = "true")
           /\ pc[p] = "jg_emit" =>
                /\ pc'[p] = "ggs_sess" /\ loc'[p].cont = "jg_details"
                /\ gparts' = gparts
                /\ \E x \in gparts' : /\ x.game_session_id = loc[p].sess
                                      /\ x.user_id = u
           /\ (pc[p] = "lg_end" \/ (pc[p] = "lg_count" /\ pc'[p] = "idle")) =>
                /\ pc'[p] = "idle" /\ res'.out = "true"
                /\ gparts' = gparts
                /\ \A x \in gparts' : x.id = loc[p].row => x.left
                /\ pc[p] = "lg_end" =>
                     \A x \in sessions' :
                        x.id = loc[p].sess => x.status = "completed"
           /\ pc[p] = "eg_parts" =>
                /\ pc'[p] = "idle" /\ res'.out = "true"
                /\ \A x \in gparts' : x.game_session_id = loc[p].sess => x.left
                /\ \A x \in sessions' :
                      x.id = loc[p].sess => x.status = "completed"
           /\ pc[p] = "us_write" =>
                /\ pc'[p] = "idle" /\ res'.out = "ok"
                /\ \A x \in gparts' : x.id = loc[p].row => x.score = loc[p].score]_vars

\* Without a socket server a score has been written and the session ended,
\* both operations answering with success and nothing having been sent.
EndedWithoutSocketServer ==
    /\ ~io
    /\ res.op = "endGameSession" /\ res.out = "true" /\ emitted = {}
    /\ \E x \in gparts : x.score # 0 /\ x.left
    /\ \A x \in sessions : x.status = "completed"

\* C27: the events of a room go out in the order in which the changes they
\* report were committed: when game-player-joined goes out for a user and
\* every other request has run to its end (so that a leave or an end of the
\* session that closed a row has sent its event already), the row of that
\* join is still open.
EventsInCommitOrder ==
    \A p \in Procs :
       ( /\ pc[p] = "ggs_sess"
         /\ \E e \in emitted : /\ e.ev = "game-player-joined"
                               /\ e.user = loc[p].user
         /\ \A q \in Procs \ {p} : pc[q] = "idle" ) =>
       \E x \in gparts : /\ x.game_session_id = loc[p].sess
                         /\ x.user_id = loc[p].user /\ ~x.left

\* C30: createGameSession is all or nothing: no state holds an active game
\* session without a game participant row of its creator.
SessionHasCreatorRow ==
    \A x \in sessions :
       x.status = "active" =>
         \E y \in gparts : /\ y.game_session_id = x.id
                           /\ y.user_id = x.created_by

\* C28: every committed change of membership is propagated: once joinRoom
\* has activated a row, over HTTP as over the realtime channel, user-joined
\* for that user is eventually emitted to the room, and once leaveRoom has
\* deactivated one, user-left is.
MembershipPropagated ==
    \A u \in Users, r \in RoomIds :
       /\ (/\ res.op = "joinRoom" /\ res.user = u /\ res.room = r
           /\ res.out = "ok" /\ res.at \in {"jr_insert", "jr_react"})
            ~> (\E e \in emitted : /\ e.ev = "user-joined"
                                   /\ e.user = u /\ e.room = r)
       /\ (/\ res.op = "leaveRoom" /\ res.user = u /\ res.room = r
           /\ res.out = "true")
            ~> (\E e \in emitted : /\ e.ev = "user-left"
                                   /\ e.user = u /\ e.room = r)

\* C31: joinGameSession is idempotent: a user who holds an open game
\* participant row in a session is given the session back and no new row,
\* so that no user ever holds two open rows in one session.
OneOpenRowPerPlayer ==
    \A x \in gparts, y \in gparts :
       (/\ x.game_session_id = y.game_session_id /\ x.user_id = y.user_id
        /\ ~x.left /\ ~y.left) => x.id = y.id

\* C32: inviteToGame changes no membership or session state: whether it
\* succeeds or fails, no step of it changes a row of rooms,
\* room_participants, room_join_requests, game_sessions or
\* game_participants, and a user gets a game participant row only by a call
\* of their own (joinGameSession, or createGameSession as the creator).
InviteChangesNothing ==
    [][/\ \A p \in Procs :
            (loc[p].op = "inviteToGame" /\ pc'[p] # pc[p]) =>
              UNCHANGED <<rooms, parts, reqs, nextReq, sessions, gparts>>
       /\ \A x \in gparts' :
            (\A y \in gparts : y.id # x.id) =>
              \E p \in Procs : /\ loc[p].user = x.user_id
                               /\ loc[p].op \in {"joinGameSession",
                                                 "createGameSession"}]_vars

\* An invitation has gone out and the invited user is still outside the
\* game, with only the inviter's row in it.
InvitedButNotIn ==
    /\ res.op = "inviteToGame" /\ res.out = "true"
    /\ Cardinality(gparts) = 1
    /\ \E x \in gparts : x.user_id = res.user /\ ~x.left

\* ---- updateRoom: authorization and frame ----

\* C33: an updateRoom by a user who is not the host of the room ends with 403
\* and changes no row; no step of updateRoom changes a participant row, a
\* join request or a game table, and the only step that changes a room is the
\* host's UPDATE, which changes that one room, and in it only the fields the
\* patch carries (name, type, is_locked).
UpdateRoomFrame ==
    [][\A p \in Procs :
         (loc[p].op = "updateRoom" /\ pc'[p] # pc[p]) =>
           /\ UNCHANGED <<parts, reqs, nextReq, sessions, gparts>>
           /\ (pc[p] = "ur_room" /\ \E x \in rooms :
                   x.id = loc[p].room /\ x.host_id # loc[p].user)
                => (rooms' = rooms /\ res'.op = "updateRoom" /\ res'.out = "e403")
           /\ rooms' # rooms =>
                /\ pc[p] = "ur_write"
                /\ Cardinality(rooms') = Cardinality(rooms)
                /\ \A x \in rooms : \E y \in rooms' :
                     /\ y.id = x.id
                     /\ y.host_id = x.host_id
                     /\ x.host_id # loc[p].user => y = x
                     /\ x.id # loc[p].room => y = x
                     /\ loc[p].name = <<>> => y.name = x.name
                     /\ loc[p].type = "none" => y.type = x.type
                     /\ loc[p].lock = "none" => y.is_locked = x.is_locked]_vars

\* Room 1 has been locked by its host while u2 was in it: the update is
\* answered, u2 is still an active member and the pending request for room 2
\* is still there.
LockedWithMemberInside ==
    /\ res.op = "updateRoom" /\ res.out = "ok" /\ res.room = 1 /\ res.user = "u1"
    /\ \E x \in rooms : x.id = 1 /\ x.is_locked /\ x.type = "private"
                        /\ x.name = <<"a", "b", "c", "d">>
    /\ \E x \in parts : x.room_id = 1 /\ x.user_id = "u2" /\ x.is_active
    /\ \E x \in reqs : x.room_id = 2 /\ x.user_id = "u2" /\ x.status = "pending"

\* C37: a rename (a patch that carries only a name) sent by the host is
\* refused with the conflict error exactly when another room of the same host
\* has exactly that name, and passes the check otherwise.
RenameChecksExactName ==
    [][\A p \in Procs :
         (/\ loc[p].op = "updateRoom" /\ pc[p] = "ur_name" /\ pc'[p] # pc[p]
          /\ loc[p].type = "none" /\ loc[p].lock = "none")
         => ((res'.op = "updateRoom" /\ res'.out = "e400")
               <=> \E x \in rooms : /\ x.host_id = loc[p].user
                                    /\ x.id # loc[p].room
                                    /\ x.name = loc[p].name)]_vars

\* ---- join requests answered over the socket ----

\* C34: a rejection sent over the socket is stored as a rejection: when the
\* respond-join-request handler, called with accept = false on a pending
\* request, writes the status, the request is left rejected (and so never
\* admits its requester to the locked room).
SocketRejectionIsStored ==
    [][\A p \in Procs :
         (/\ loc[p].op = "respond-join-request" /\ ~loc[p].want
          /\ pc[p] = "ujr_write" /\ pc'[p] # pc[p])
         => \A x \in reqs' : x.id = loc[p].req => x.status = "rejected"]_vars

\* C35: accepting a join request does not join the requester: no step of
\* updateJoinRequest changes a room, a participant row or a game table, and
\* the only change it makes to the join requests is the status of the row it
\* was called for; a participant row is made active only by a step of
\* joinRoom called for that user.
AcceptDoesNotJoin ==
    [][/\ \A p \in Procs :
            (/\ loc[p].op \in {"updateJoinRequest", "respond-join-request"}
             /\ pc'[p] # pc[p])
            => /\ UNCHANGED <<rooms, parts, nextReq, sessions, gparts>>
               /\ Cardinality(reqs') = Cardinality(reqs)
               /\ \A x \in reqs : \E y \in reqs' :
                    /\ y.id = x.id /\ y.room_id = x.room_id
                    /\ y.user_id = x.user_id
                    /\ x.id # loc[p].req => y = x
       /\ \A y \in parts' :
            (y.is_active /\ y \notin parts) =>
               \E p \in Procs : /\ loc[p].op = "joinRoom"
                                /\ loc[p].user = y.user_id
                                /\ loc[p].room = y.room_id
                                /\ pc'[p] # pc[p]]_vars

\* The host has accepted the request of u2 over HTTP and u2 has no active
\* participant row in the room.
AcceptedButOutside ==
    /\ res.op = "updateJoinRequest" /\ res.out = "accepted"
    /\ res.at \in {"cn_settings", "cn_read", "cn_tokens", "cn_push"}
    /\ \E x \in reqs : x.user_id = "u2" /\ x.room_id = 1 /\ x.status = "accepted"
    /\ ~\E x \in parts : x.user_id = "u2" /\ x.room_id = 1 /\ x.is_active

\* ---- joinRoom: all or nothing ----

\* C36: joinRoom completes or fails as a whole: when a call of joinRoom ends
\* with an error (room not found, room locked, or the participant write
\* refused by the unique key), that call has deleted no join request and its
\* last step changes no participant row.
JoinRoomFailsWhole ==
    [][\A p \in Procs :
         (/\ pc[p] \in {"jr_room", "jr_req", "jr_react", "jr_insert"}
          /\ pc'[p] = "idle"
          /\ res'.out \in {"e404", "e403", "e500", "room-join-error"})
         => (loc[p].snap = {} /\ parts' = parts)]_vars

\* ---- game participation against session status and room membership ----

\* C38: whatever the interleaving of joinGameSession with leaveGameSession
\* and endGameSession on a session, joinGameSession never leaves an open
\* game participant row in a session whose status is not active: when it
\* inserts its row and no other call is still running (one that might close
\* the row afterwards), the session is active.
NoOpenRowInClosedSession ==
    [][\A p \in Procs :
         (/\ loc[p].op = "joinGameSession" /\ pc'[p] # pc[p]
          /\ gparts' # gparts
          /\ \A q \in Procs \ {p} : pc[q] = "idle")
         => \A x \in gparts' \ gparts :
               ~x.left => \E s \in sessions' : /\ s.id = x.game_session_id
                                               /\ s.status = "active"]_vars

\* C39: game participation never outlives room membership: whenever no
\* operation is in progress, every user with an open game participant row in
\* an active session has an active participant row in the room of that
\* session.
PlayersAreInTheRoom ==
    AllIdle =>
      \A x \in gparts, s \in sessions :
         (~x.left /\ s.id = x.game_session_id /\ s.status = "active")
         => \E y \in parts : /\ y.room_id = s.room_id
                             /\ y.user_id = x.user_id
                             /\ y.is_active

\* ---- the two admission checks ----

\* What canUserJoinRoom(u, r) returns on the stored rows: false without the
\* room, true for the host and for an unlocked room, otherwise whether the
\* user has an accepted join request.
canUserJoinRoom(u, r) ==
    \E x \in RoomById(rooms, r) :
       \/ HostOrUnlocked(x, u)
       \/ AcceptedRequests(reqs, r, u) # {}

\* Whether joinRoom(u, r) gets past its first two checks on the stored rows:
\* the room exists, and if it is locked the user has an accepted join request.
joinRoomPassesChecks(u, r) ==
    \E x \in RoomById(rooms, r) :
       x.is_locked => AcceptedRequests(reqs, r, u) # {}

\* C40: the two admission checks agree: for every user, the host included, and
\* every room, canUserJoinRoom answers true exactly when joinRoom would fail
\* with neither 'Room not found' nor 'Room is locked'.
AdmissionChecksAgree ==
    \A u \in Users, r \in RoomIds :
       canUserJoinRoom(u, r) <=> joinRoomPassesChecks(u, r)

====
